---- MODULE Spec2Model ----
(***************************************************************************)
(* Reviewer lottery: the ReviewerSelector of src/src/core/reviewer-        *)
(* selector.ts as a state machine.                                         *)
(*                                                                         *)
(* Strings that the code parses (group names, from-clause keys) are        *)
(* sequences of one-character strings, so that startsWith, substring,      *)
(* split and trim are computed and not assumed.  Usernames are only ever   *)
(* compared, and stay TLA+ strings.  A from clause (a JS object iterated   *)
(* with Object.entries) is a sequence of <<key, count>> pairs with         *)
(* pairwise distinct keys, in insertion order.                             *)
(***************************************************************************)
EXTENDS Integers, Naturals, Sequences, FiniteSets, TLC

VARIABLES
    config,             \* ReviewerSelector.config (constructor argument)
    pc,                 \* position of the running call: "idle", "select", "pick"
    op,                 \* the public method called last (or running)
    author,             \* selectReviewers / determineApplicableRule argument
    existingReviewers,  \* selectReviewers argument
    appliedRule,        \* determineApplicableRule's return value
    entryIdx,           \* executeSelection: entries of fromClause consumed so far
    selected,           \* executeSelection: local `selected`
    process,            \* executeSelection: the SelectionStep list
    groupKey,           \* resolveGroupSelection argument / current entry's key
    items,              \* pickRandom argument
    n,                  \* pickRandom argument
    ignore,             \* pickRandom argument
    candidates,         \* pickRandom: local `candidates`
    picks,              \* pickRandom: local `picks`
    ret,                \* the value returned by the last call
    calls,              \* number of calls made of the selector's methods
    loaded,             \* getConfig: the value of yaml.load (config itself
                        \* when the selector is built directly)
    failed,             \* the messages given to setFailed, oldest first
    lpc,                \* position of Lottery.run
    prInfo,             \* Lottery.prInfo (constructor argument)
    pr,                 \* Lottery.pr
    prAuthor,           \* Lottery.selectReviewers: local `author`
    fetched,            \* Lottery.selectReviewers: local `existingReviewers`
    reviewers,          \* Lottery.run: local `reviewers`
    log,                \* the calls of the logger, oldest first (info and
                        \* debug messages are not recorded)
    outputs,            \* the calls of actionOutputs.setOutput, oldest first
    summaries,          \* the Status rows given to actionOutputs.addSummary
    requests,           \* the calls of githubService.setReviewers
    answers             \* their answers: TRUE resolved, FALSE rejected

\* the state of a Lottery
lotteryVars == <<lpc, prInfo, pr, prAuthor, fetched, reviewers, log, outputs,
                 summaries, requests, answers>>

\* the state outside the selector
runVars == <<loaded, failed, lotteryVars>>

vars == <<config, pc, op, author, existingReviewers, appliedRule, entryIdx,
          selected, process, groupKey, items, n, ignore, candidates, picks,
          ret, calls, loaded, failed, lotteryVars>>

----------------------------------------------------------------------------
(* Bounds of the model *)

MaxCount == 2       \* largest count written in a from clause
MaxExisting == 2    \* longest existingReviewers list
MaxItems == 3       \* longest items list handed to pickRandom directly
MaxIgnore == 1      \* longest ignore list handed to pickRandom directly

----------------------------------------------------------------------------
(* JavaScript built-ins used by the selector *)

\* Array.prototype.includes
Includes(s, x) == \E i \in 1..Len(s) : s[i] = x

\* Array.prototype.indexOf / findIndex on the first match, 0 when absent
RECURSIVE IndexFrom(_, _, _)
IndexFrom(s, Test(_), i) ==
    IF i > Len(s) THEN 0
    ELSE IF Test(s[i]) THEN i
    ELSE IndexFrom(s, Test, i + 1)

\* Math.max
Max(x, y) == IF x >= y THEN x ELSE y

\* Array.prototype.splice(i, 1): the array without its i-th element
SpliceKeep(s, i) == s
Splice(s, i) == SubSeq(s, 1, i - 1) \o SubSeq(s, i + 1, Len(s))

WhiteSpace == {" "}

\* String.prototype.trim
RECURSIVE TrimStart(_)
TrimStart(s) ==
    IF s # <<>> /\ Head(s) \in WhiteSpace THEN TrimStart(Tail(s)) ELSE s

RECURSIVE TrimEnd(_)
TrimEnd(s) ==
    IF s # <<>> /\ s[Len(s)] \in WhiteSpace
    THEN TrimEnd(SubSeq(s, 1, Len(s) - 1))
    ELSE s

TrimNone(s) == s
Trim(s) == TrimEnd(TrimStart(s))

\* String.prototype.split(","): the pieces between the commas, empty pieces
\* included; `piece` is the piece being read
RECURSIVE SplitFrom(_, _)
SplitFrom(s, piece) ==
    IF s = <<>> THEN <<piece>>
    ELSE IF Head(s) = "," THEN <<piece>> \o SplitFrom(Tail(s), <<>>)
    ELSE SplitFrom(Tail(s), Append(piece, Head(s)))

Split(s) == SplitFrom(s, <<>>)

\* Array.prototype.map over a sequence
Map(s, F(_)) == [i \in 1..Len(s) |-> F(s[i])]

----------------------------------------------------------------------------
(* Values of the configuration (src/src/config.ts) *)

\* a `from` property that is missing (undefined)
Undefined == [defined |-> FALSE, entries |-> <<>>]
\* a `from` property holding the object with these entries
From(entries) == [defined |-> TRUE, entries |-> entries]

\* an optional rule section ({ from } or undefined)
NoSection == [present |-> FALSE, from |-> Undefined]
Section(from) == [present |-> TRUE, from |-> from]

\* the optional by_author_group array
NoByAuthorGroup == [present |-> FALSE, list |-> <<>>]
ByAuthorGroup(list) == [present |-> TRUE, list |-> list]
SelectionRule(group, from) == [group |-> group, from |-> from]

\* the optional selection_rules object
NoRules ==
    [present |-> FALSE, default |-> NoSection,
     by_author_group |-> NoByAuthorGroup, non_group_members |-> NoSection]
SelectionRules(d, by, ngm) ==
    [present |-> TRUE, default |-> d, by_author_group |-> by,
     non_group_members |-> ngm]

Group(name, usernames) ==
    [name |-> name, usernames |-> usernames, hasUsernames |-> TRUE]
\* a group whose usernames property is missing (undefined)
GroupWithoutUsernames(name) ==
    [name |-> name, usernames |-> <<>>, hasUsernames |-> FALSE]

\* section?.from
OptFromOrEmpty(section) ==
    IF section.present THEN section.from ELSE From(<<>>)
OptFrom(section) == IF section.present THEN section.from ELSE Undefined

\* x || y on two optional objects (an object, even {}, is truthy)
OrElseNonEmpty(x, y) == IF x.defined /\ x.entries # <<>> THEN x ELSE y
OrElse(x, y) == IF x.defined THEN x ELSE y

\* Object.keys / lookup / assignment on an entries list
Keys(entries) == {entries[i][1] : i \in 1..Len(entries)}
HasKey(entries, k) == \E i \in 1..Len(entries) : entries[i][1] = k
Get(entries, k) ==
    entries[CHOOSE i \in 1..Len(entries) : entries[i][1] = k][2]
\* obj[k] = v: an existing key keeps its place, a new key goes last
SetKey(entries, k, v) ==
    IF HasKey(entries, k)
    THEN [i \in 1..Len(entries) |->
            IF entries[i][1] = k THEN <<k, v>> ELSE entries[i]]
    ELSE Append(entries, <<k, v>>)

----------------------------------------------------------------------------
(* ReviewerSelector: rule resolution *)

\* the value null of AppliedRule | null
NullRule ==
    [isNull |-> TRUE, type |-> "null", index |-> -1, rule |-> <<>>,
     mergedFromGroups |-> <<>>]
\* index -1 and mergedFromGroups <<>> stand for an absent property
Rule(type, index, rule, mergedFromGroups) ==
    [isNull |-> FALSE, type |-> type, index |-> index, rule |-> rule,
     mergedFromGroups |-> mergedFromGroups]

GroupNames(cfg) == Map(cfg.groups, LAMBDA g : g.name)

\* the groups, in declaration order, whose usernames include the author
getAuthorGroups(cfg, a) ==
    GroupNames(
        [groups |-> SelectSeq(cfg.groups,
                              LAMBDA g : Includes(g.usernames, a))])

\* the first such group, <<>> for null (no group name is empty)
getAuthorGroup(cfg, a) ==
    LET gs == getAuthorGroups(cfg, a)
    IN  IF gs = <<>> THEN <<>> ELSE gs[1]

\* getAuthorGroup throws a TypeError when it reads usernames.includes of a
\* group without usernames, which it does unless an earlier group has the
\* author
getAuthorGroupThrows(cfg, a) ==
    \E i \in 1..Len(cfg.groups) :
        /\ ~cfg.groups[i].hasUsernames
        /\ \A j \in 1..(i - 1) : ~Includes(cfg.groups[j].usernames, a)

\* getAuthorGroups reads usernames.includes of every group
getAuthorGroupsThrows(cfg, a) ==
    \E i \in 1..Len(cfg.groups) : ~cfg.groups[i].hasUsernames

\* by_author_group.find(rule => rule.group === g): position, 0 for undefined
FindFirstRule(list, g) == IF list = <<>> THEN 0 ELSE 1
FindRule(list, g) == IndexFrom(list, LAMBDA r : r.group = g, 1)

\* groupRule?.from || rules.default?.from
GroupFrom(rules, g) ==
    LET i == FindRule(rules.by_author_group.list, g)
    IN  OrElse(IF i = 0 THEN Undefined
               ELSE rules.by_author_group.list[i].from,
               OptFrom(rules.default))

\* mergedRule[targetGroup] = Math.max(mergedRule[targetGroup] || 0, count)
\* for every entry of fromClause
MergeSum(x, y) == x + y
MergeCount(old, count) == Max(old, count)

RECURSIVE MergeClause(_, _)
MergeClause(merged, entries) ==
    IF entries = <<>> THEN merged
    ELSE LET k == Head(entries)[1]
             count == Head(entries)[2]
             old == IF HasKey(merged, k) /\ Get(merged, k) # 0
                    THEN Get(merged, k) ELSE 0
         IN  MergeClause(SetKey(merged, k, MergeCount(old, count)),
                         Tail(entries))

RECURSIVE MergeGroups(_, _, _)
MergeGroups(rules, merged, gs) ==
    IF gs = <<>> THEN merged
    ELSE LET from == GroupFrom(rules, Head(gs))
         IN  MergeGroups(rules,
                         IF from.defined
                         THEN MergeClause(merged, from.entries)
                         ELSE merged,
                         Tail(gs))

\* returns the merged from clause, Undefined for null
mergeRulesFromGroups(cfg, authorGroups) ==
    LET rules == cfg.selection_rules
    IN  IF ~rules.present \/ ~rules.by_author_group.present
        THEN (IF rules.present THEN OptFrom(rules.default) ELSE Undefined)
        ELSE LET merged == MergeGroups(rules, <<>>, authorGroups)
             IN  IF Len(merged) > 0 THEN From(merged) ELSE Undefined

determineApplicableRule(cfg, a, authorGroup) ==
    LET rules == cfg.selection_rules
        authorGroups == getAuthorGroups(cfg, a)
    IN  IF ~rules.present THEN NullRule
        ELSE IF Len(authorGroups) = 0 THEN
            LET fromClause == OrElse(OptFrom(rules.non_group_members),
                                     OptFrom(rules.default))
                ruleType == IF OptFrom(rules.non_group_members).defined
                            THEN "non_group_members" ELSE "default"
            IN  IF ~fromClause.defined THEN NullRule
                ELSE Rule(ruleType, -1, fromClause.entries, <<>>)
        ELSE IF Len(authorGroups) > 1 THEN
            LET mergedRule == mergeRulesFromGroups(cfg, authorGroups)
            IN  IF ~mergedRule.defined THEN NullRule
                ELSE Rule("merged_groups", -1, mergedRule.entries,
                          authorGroups)
        ELSE
            LET i == IF rules.by_author_group.present
                     THEN FindRule(rules.by_author_group.list, authorGroup)
                     ELSE 0
                fromClause == GroupFrom(rules, authorGroup)
                ruleType == IF i # 0 THEN "by_author_group" ELSE "default"
            IN  IF ~fromClause.defined THEN NullRule
                ELSE Rule(ruleType, i - 1, fromClause.entries, <<>>)

\* determineApplicableRule returns null without selection_rules, and
\* calls getAuthorGroups otherwise
determineApplicableRuleThrows(cfg, a) ==
    cfg.selection_rules.present /\ getAuthorGroupsThrows(cfg, a)

----------------------------------------------------------------------------
(* ReviewerSelector: group keys, candidate pools *)

StartsWith(s, c) == s # <<>> /\ Head(s) = c

\* groupKey.substring(1).split(",").map(g => g.trim())
ExcludeGroups(key) == Map(Split(Tail(key)), Trim)

resolveGroupSelection(cfg, key) ==
    IF key = <<"*">> THEN GroupNames(cfg)
    ELSE IF StartsWith(key, "!") THEN
        SelectSeq(GroupNames(cfg),
                  LAMBDA name : ~Includes(ExcludeGroups(key), name))
    ELSE <<key>>

\* if (group) candidates.push(...group.usernames), group being
\* cfg.groups[i] or undefined (i = 0): spreading missing usernames throws a
\* TypeError
UnguardedPushThrows(cfg, i) == i = 0 \/ ~cfg.groups[i].hasUsernames
PushThrows(cfg, i) == i # 0 /\ ~cfg.groups[i].hasUsernames

\* getCandidatesFromGroups throws on one of groupNames
getCandidatesFromGroupsThrows(cfg, groupNames) ==
    \E k \in 1..Len(groupNames) :
        PushThrows(cfg, IndexFrom(cfg.groups,
                                  LAMBDA g : g.name = groupNames[k], 1))

RECURSIVE getCandidatesFromGroups(_, _)
getCandidatesFromGroups(cfg, groupNames) ==
    IF groupNames = <<>> THEN <<>>
    ELSE LET i == IndexFrom(cfg.groups,
                            LAMBDA g : g.name = Head(groupNames), 1)
         IN  (IF i = 0 THEN <<>> ELSE cfg.groups[i].usernames)
             \o getCandidatesFromGroups(cfg, Tail(groupNames))

\* items.filter(item => !ignore.includes(item))
Eligible(its, ign) == SelectSeq(its, LAMBDA x : ~Includes(ign, x))

\* existingReviewers.filter(reviewer => candidates.includes(reviewer))
ExistingFromGroups(existing, cands) ==
    SelectSeq(existing, LAMBDA r : Includes(cands, r))

\* Math.max(0, count - existingFromGroups.length)
NeededMinusAllExisting(count, existing, cands) ==
    Max(0, count - Len(existing))
NeededIgnoringExisting(count, existing, cands) == Max(0, count)
RemainingNeeded(count, existing, cands) ==
    Max(0, count - Len(ExistingFromGroups(existing, cands)))

\* if (count <= 0) continue
SkipNegative(count) == count < 0
SkipEntry(count) == count <= 0

\* selected.concat(author, ...existingReviewers)
IgnoreWithoutAuthor(sel, a, existing) == sel \o existing
IgnoreWithoutSelected(sel, a, existing) == <<a>> \o existing
IgnoreList(sel, a, existing) == sel \o <<a>> \o existing

----------------------------------------------------------------------------
(* Values of a Lottery (src/src/interfaces.ts) *)

PRNumber == 42

\* prInfo: missing, or { prNumber, author }; author "" is a missing author
NoPRInfo == [present |-> FALSE, prNumber |-> 0, author |-> ""]
PRInfo(a) == [present |-> TRUE, prNumber |-> PRNumber, author |-> a]

\* a Pull { number, user }: hasUser is FALSE for user null; NoPull is
\* undefined
NoPull == [set |-> FALSE, number |-> 0, hasUser |-> FALSE, login |-> ""]
Pull(number, hasUser, login) ==
    [set |-> TRUE, number |-> number, hasUser |-> hasUser, login |-> login]

----------------------------------------------------------------------------
(* Inputs of the model *)

A == <<"a">>
B == <<"b">>
C == <<"c">>
AB == <<"a", "b">>

Usernames == {"u1", "u2", "u3"}
\* "ext" is a member of no group
Authors == Usernames \cup {"ext"}

\* sequences over S of length at most k
SeqsUpTo(S, k) == UNION {[1..m -> S] : m \in 0..k}

Rosters ==
    { <<Group(A, <<"u1", "u2">>), Group(B, <<"u2", "u3">>),
        Group(C, <<"u3">>)>>,
      <<Group(B, <<"u1">>), Group(A, <<"u2", "u3">>), Group(C, <<>>)>>,
      <<Group(A, <<"u1", "u2">>), Group(B, <<"u1", "u3">>),
        Group(C, <<"u1">>)>>,
      <<Group(AB, <<"u1", "u2", "u3">>), Group(A, <<"u3", "u1">>)>> }

Config(groups, rules, strategy) ==
    [groups |-> groups, selection_rules |-> rules,
     when_author_in_multiple_groups |-> strategy]

\* "unset" is an absent when_author_in_multiple_groups
Strategies == {"unset", "merge", "first"}

----------------------------------------------------------------------------
(* Calls of the public methods, and the steps of a running call *)

Idle ==
    /\ pc = "idle"

ResetCall ==
    /\ author' = ""
    /\ existingReviewers' = <<>>
    /\ appliedRule' = NullRule
    /\ entryIdx' = 0
    /\ selected' = <<>>
    /\ process' = <<>>

ResetPick ==
    /\ items' = <<>>
    /\ n' = 0
    /\ ignore' = <<>>
    /\ candidates' = <<>>
    /\ picks' = <<>>

Init0 ==
    /\ pc = "idle"
    /\ op = "none"
    /\ author = ""
    /\ existingReviewers = <<>>
    /\ appliedRule = NullRule
    /\ entryIdx = 0
    /\ selected = <<>>
    /\ process = <<>>
    /\ groupKey = <<>>
    /\ items = <<>>
    /\ n = 0
    /\ ignore = <<>>
    /\ candidates = <<>>
    /\ picks = <<>>
    /\ ret = <<>>
    /\ calls = 0
    /\ failed = <<>>
    /\ lpc = "none"
    /\ prInfo = NoPRInfo
    /\ pr = NoPull
    /\ prAuthor = ""
    /\ fetched = <<>>
    /\ reviewers = <<>>
    /\ log = <<>>
    /\ outputs = <<>>
    /\ summaries = <<>>
    /\ requests = <<>>
    /\ answers = <<>>

\* pickRandom(its, k, ign) called on the selector: lines 256-257
PickRandom(its, k, ign) ==
    /\ Idle
    /\ op' = "pickRandom"
    /\ pc' = "pick"
    /\ items' = its
    /\ n' = k
    /\ ignore' = ign
    /\ candidates' = Eligible(its, ign)
    /\ picks' = <<>>
    /\ ret' = <<>>
    /\ groupKey' = <<>>
    /\ ResetCall
    /\ calls' = calls + 1
    /\ UNCHANGED config

\* if (!picks.includes(pick)) picks.push(pick)
PushAlways(ps, pick) == Append(ps, pick)
PushPick(ps, pick) == IF ~Includes(ps, pick) THEN Append(ps, pick) ELSE ps

\* one iteration of the while loop of pickRandom; `random` is
\* Math.floor(Math.random() * candidates.length)
\* Math.floor(Math.random() * length): any index of the array
RandomFirst(length) == {0}
Random(length) == 0..(length - 1)

PickIterationInPlace ==
    /\ pc = "pick"
    /\ Len(picks) < n /\ Len(candidates) > 0
    /\ \E random \in Random(Len(candidates)) :
          LET pick == candidates[random + 1]
          IN  /\ candidates' = Splice(candidates, random + 1)
              /\ items' = candidates'
              /\ picks' = PushPick(picks, pick)
    /\ UNCHANGED <<config, pc, op, author, existingReviewers, appliedRule,
                   entryIdx, selected, process, groupKey, n, ignore, ret>>
    /\ UNCHANGED <<calls, runVars>>
PickIteration ==
    /\ pc = "pick"
    /\ Len(picks) < n /\ Len(candidates) > 0
    /\ \E random \in Random(Len(candidates)) :
          LET pick == candidates[random + 1]
          IN  /\ candidates' = Splice(candidates, random + 1)
              /\ picks' = PushPick(picks, pick)
    /\ UNCHANGED <<config, pc, op, author, existingReviewers, appliedRule,
                   entryIdx, selected, process, groupKey, items, n, ignore,
                   ret>>
    /\ UNCHANGED <<calls, runVars>>

\* the SelectionStep pushed by executeSelection (without its description)
Step(k, key, cands, required, sel) ==
    [step |-> k, groupKey |-> key, candidates |-> cands,
     required |-> required, selected |-> sel]

\* the while loop of pickRandom ends and pickRandom returns picks: to the
\* caller of the method, or to executeSelection (lines 193-203)
PickReturn ==
    /\ pc = "pick"
    /\ ~(Len(picks) < n /\ Len(candidates) > 0)
    /\ IF op = "pickRandom"
       THEN /\ pc' = "idle"
            /\ ret' = picks
            /\ UNCHANGED <<process, selected>>
       ELSE /\ pc' = "select"
            /\ process' = Append(process,
                                 Step(Len(process) + 1, groupKey, items, n,
                                      picks))
            /\ selected' = selected \o picks
            /\ UNCHANGED ret
    /\ UNCHANGED <<config, op, author, existingReviewers, appliedRule,
                   entryIdx, groupKey, items, n, ignore, candidates, picks>>
    /\ UNCHANGED <<calls, runVars>>

\* selectReviewers(a, existing): lines 18-36, up to the for loop of
\* executeSelection
SelectReviewers(a, existing) ==
    /\ Idle
    /\ op' = "selectReviewers"
    /\ author' = a
    /\ existingReviewers' = existing
    /\ IF getAuthorGroupThrows(config, a)
          \/ determineApplicableRuleThrows(config, a)
       THEN /\ appliedRule' = NullRule
            /\ pc' = "threw"
       ELSE LET rule == determineApplicableRule(config, a,
                                               getAuthorGroup(config, a))
            IN  /\ appliedRule' = rule
                /\ pc' = IF rule.isNull THEN "idle" ELSE "select"
    /\ entryIdx' = 0
    /\ selected' = <<>>
    /\ process' = <<>>
    /\ groupKey' = <<>>
    /\ ret' = <<>>
    /\ ResetPick
    /\ calls' = calls + 1
    /\ UNCHANGED config

\* the for loop of executeSelection takes the next entry of fromClause:
\* lines 173-191
NextEntry ==
    /\ pc = "select"
    /\ entryIdx < Len(appliedRule.rule)
    /\ entryIdx' = entryIdx + 1
    /\ LET key == appliedRule.rule[entryIdx + 1][1]
           count == appliedRule.rule[entryIdx + 1][2]
           targetGroups == resolveGroupSelection(config, key)
           cands == getCandidatesFromGroups(config, targetGroups)
           remainingNeeded == RemainingNeeded(count, existingReviewers, cands)
           ign == IgnoreList(selected, author, existingReviewers)
       IN  IF SkipEntry(count)
           THEN UNCHANGED <<pc, groupKey, items, n, ignore, candidates,
                            picks>>
           ELSE IF getCandidatesFromGroupsThrows(config, targetGroups)
           THEN /\ pc' = "threw"
                /\ UNCHANGED <<groupKey, items, n, ignore, candidates,
                               picks>>
           ELSE /\ pc' = "pick"
                /\ groupKey' = key
                /\ items' = cands
                /\ n' = remainingNeeded
                /\ ignore' = ign
                /\ candidates' = Eligible(cands, ign)
                /\ picks' = <<>>
    /\ UNCHANGED <<config, op, author, existingReviewers, appliedRule,
                   selected, process, ret>>
    /\ UNCHANGED <<calls, runVars>>

\* the for loop is over: executeSelection and selectReviewers return
SelectReturn ==
    /\ pc = "select"
    /\ entryIdx = Len(appliedRule.rule)
    /\ pc' = "idle"
    /\ ret' = selected
    /\ UNCHANGED <<config, op, author, existingReviewers, appliedRule,
                   entryIdx, selected, process, groupKey, items, n, ignore,
                   candidates, picks>>
    /\ UNCHANGED <<calls, runVars>>

\* resolveGroupSelection(key, authorGroup) called on the selector
ResolveGroupSelection(key) ==
    /\ Idle
    /\ op' = "resolveGroupSelection"
    /\ pc' = "idle"
    /\ ret' = resolveGroupSelection(config, key)
    /\ ResetCall
    /\ groupKey' = key
    /\ ResetPick
    /\ calls' = calls + 1
    /\ UNCHANGED config

\* determineApplicableRule(a, getAuthorGroup(a)) alone
DetermineApplicableRule(a) ==
    /\ Idle
    /\ op' = "determineApplicableRule"
    /\ pc' = "idle"
    /\ author' = a
    /\ appliedRule' = determineApplicableRule(config, a,
                                              getAuthorGroup(config, a))
    /\ existingReviewers' = <<>>
    /\ entryIdx' = 0
    /\ selected' = <<>>
    /\ process' = <<>>
    /\ groupKey' = <<>>
    /\ ret' = <<>>
    /\ ResetPick
    /\ calls' = calls + 1
    /\ UNCHANGED config

----------------------------------------------------------------------------
(* getConfig and the validation of the configuration (src/src/config.ts). *)
(* A validation returns "ok" or the message of the error it throws,        *)
(* without the quotation marks and the values the code puts in it.         *)

\* key.substring(1).split(",").map(g => g.trim()) has a piece that is no
\* group name
BadExclusion(key, groupNames) ==
    \E k \in 1..Len(ExcludeGroups(key)) :
        ~Includes(groupNames, ExcludeGroups(key)[k])

\* the for loop of validateFromClause over the entries of the clause
RECURSIVE validateEntries(_, _)
validateEntries(entries, groupNames) ==
    IF entries = <<>> THEN "ok"
    ELSE LET key == Head(entries)[1]
             count == Head(entries)[2]
         IN  IF count < 0 THEN "Reviewer count must be non-negative"
             ELSE IF /\ key # <<"*">>
                     /\ ~StartsWith(key, "!")
                     /\ ~Includes(groupNames, key)
             THEN "Group in selection rule does not exist"
             ELSE IF StartsWith(key, "!") /\ BadExclusion(key, groupNames)
             THEN "Group in exclusion rule does not exist"
             ELSE validateEntries(Tail(entries), groupNames)

\* Object.entries(undefined) throws a TypeError
validateFromClause(from, groupNames) ==
    IF ~from.defined THEN "TypeError"
    ELSE validateEntries(from.entries, groupNames)

\* the for loop over rules.by_author_group
RECURSIVE validateByAuthorGroup(_, _)
validateByAuthorGroup(list, groupNames) ==
    IF list = <<>> THEN "ok"
    ELSE IF ~Includes(groupNames, Head(list).group)
    THEN "Group in selection_rules does not exist"
    ELSE LET e == validateFromClause(Head(list).from, groupNames)
         IN  IF e # "ok" THEN e
             ELSE validateByAuthorGroup(Tail(list), groupNames)

validateSelectionRules(rules, groups) ==
    LET groupNames == Map(groups, LAMBDA g : g.name)
        d == IF rules.default.present
             THEN validateFromClause(rules.default.from, groupNames)
             ELSE "ok"
        by == IF rules.by_author_group.present
              THEN validateByAuthorGroup(rules.by_author_group.list,
                                         groupNames)
              ELSE "ok"
        ngm == IF rules.non_group_members.present
               THEN validateFromClause(rules.non_group_members.from,
                                       groupNames)
               ELSE "ok"
    IN  IF d # "ok" THEN d ELSE IF by # "ok" THEN by ELSE ngm

\* if (config.when_author_in_multiple_groups): "unset" is the missing
\* property, "" the empty string
Truthy(strategy) == strategy \notin {"unset", ""}

validateConfig(cfg) ==
    IF ~cfg.selection_rules.present
    THEN "selection_rules must be provided in the configuration"
    ELSE LET e == validateSelectionRules(cfg.selection_rules, cfg.groups)
         IN  IF e # "ok" THEN e
             ELSE IF /\ Truthy(cfg.when_author_in_multiple_groups)
                     /\ cfg.when_author_in_multiple_groups
                            \notin {"merge", "first"}
             THEN "Invalid value for when_author_in_multiple_groups"
             ELSE "ok"

\* { groups: [] }, what getConfig returns after a failure
NoGroups == Config(<<>>, NoRules, "unset")

\* getConfig(): the loaded value is validated and returned, or the error is
\* given to core.setFailed and { groups: [] } is returned
GetConfigReturnsLoaded ==
    /\ Idle
    /\ op' = "getConfig"
    /\ config' = loaded
    /\ failed' = IF validateConfig(loaded) = "ok" THEN failed
                 ELSE Append(failed, validateConfig(loaded))
    /\ UNCHANGED <<pc, author, existingReviewers, appliedRule, entryIdx,
                   selected, process, groupKey, items, n, ignore, candidates,
                   picks, ret, calls, loaded, lotteryVars>>
GetConfig ==
    /\ Idle
    /\ op' = "getConfig"
    /\ LET e == validateConfig(loaded)
       IN  IF e = "ok"
           THEN /\ config' = loaded
                /\ failed' = failed
           ELSE /\ config' = NoGroups
                /\ failed' = Append(failed, e)
    /\ UNCHANGED <<pc, author, existingReviewers, appliedRule, entryIdx,
                   selected, process, groupKey, items, n, ignore, candidates,
                   picks, ret, calls, loaded, lotteryVars>>

----------------------------------------------------------------------------
(* Lottery (src/unnamed/part_006): what its methods make of the answers   *)
(* of the GitHub service                                                   *)

\* the variables of the selector, config apart
engineVars == <<pc, op, author, existingReviewers, appliedRule, entryIdx,
                selected, process, groupKey, items, n, ignore, candidates,
                picks, ret, calls>>

\* Array.prototype.join(","): the elements with a "," between two of them
RECURSIVE Join(_)
Join(list) ==
    IF Len(list) <= 1 THEN list
    ELSE <<Head(list), ",">> \o Join(Tail(list))

\* Number.prototype.toString of a length below 10
toString(k) == <<"0", "1", "2", "3", "4", "5", "6", "7", "8", "9">>[k + 1]

\* reviewers.filter(r => !!r): the empty string is falsy
KeepAll(list) == list
FilterTruthy(list) == SelectSeq(list, LAMBDA r : r # "")

\* a call of the logger, of setOutput
Logged(level, message) == <<level, message>>
Output(name, value) == <<name, value>>

\* the answers of githubService.findPRByRef: a pull, undefined, a rejection
FindOutcomes ==
    {[kind |-> "pull", pull |-> Pull(PRNumber, TRUE, l)] : l \in {"u1", "ext"}}
    \cup {[kind |-> "pull", pull |-> Pull(PRNumber, FALSE, "")],
          [kind |-> "undefined", pull |-> NoPull],
          [kind |-> "rejected", pull |-> NoPull]}

\* the answers of githubService.getPRAuthor: a login, a rejection
AuthorOutcomes ==
    {[rejected |-> FALSE, login |-> l] : l \in {"u1", ""}}
    \cup {[rejected |-> TRUE, login |-> ""]}

\* the answers of githubService.getExistingReviewers: logins, a rejection
ExistingOutcomes ==
    {[rejected |-> FALSE, users |-> l] :
        l \in {<<>>, <<"u2">>, <<"u3", "u2">>}}
    \cup {[rejected |-> TRUE, users |-> <<>>]}

\* getPR(): the pull and the message of the error it reports ("" for none);
\* o is the answer of findPRByRef, used when neither this.pr nor prInfo is
\* there
getPRUnreported(p, info, o) ==
    IF p.set THEN [pr |-> p, error |-> ""]
    ELSE IF info.present
    THEN [pr |-> Pull(info.prNumber, FALSE, ""), error |-> ""]
    ELSE IF o.kind = "pull" THEN [pr |-> o.pull, error |-> ""]
    ELSE [pr |-> NoPull, error |-> ""]
getPR(p, info, o) ==
    IF p.set THEN [pr |-> p, error |-> ""]
    ELSE IF info.present
    THEN [pr |-> Pull(info.prNumber, FALSE, ""), error |-> ""]
    ELSE IF o.kind = "pull" THEN [pr |-> o.pull, error |-> ""]
    ELSE IF o.kind = "undefined"
    THEN [pr |-> NoPull, error |-> "PR matching ref not found"]
    ELSE [pr |-> p, error |-> "Failed to find PR by ref"]

\* getPRAuthor() on a Lottery whose pr is set: the author returned, this.pr
\* afterwards and the message of the error it reports; o is the answer of
\* githubService.getPRAuthor, used when prInfo has no author and pr no login
getPRAuthor(p, info, o) ==
    IF info.present /\ info.author # ""
    THEN [author |-> info.author, pr |-> p, error |-> ""]
    ELSE IF info.present /\ (~p.hasUser \/ p.login = "")
    THEN IF o.rejected
         THEN [author |-> "", pr |-> p, error |-> "Failed to get PR author"]
         ELSE [author |-> o.login, pr |-> Pull(info.prNumber, TRUE, o.login),
               error |-> ""]
    ELSE [author |-> IF p.hasUser THEN p.login ELSE "", pr |-> p,
          error |-> ""]

\* getExistingReviewers(): a rejection of the service is caught, reported
\* as a warning, and answered with []
getExistingReviewersUncaught(o) ==
    [threw |-> o.rejected, list |-> o.users, warning |-> FALSE]
getExistingReviewers(o) ==
    [threw |-> FALSE, list |-> IF o.rejected THEN <<>> ELSE o.users,
     warning |-> o.rejected]

\* Number(this.pr?.number); 0 stands for NaN
getPRNumber(p) == IF p.set THEN p.number ELSE 0

\* the log with this error, if there is one
WithError(l, message) ==
    IF message = "" THEN l ELSE Append(l, Logged("error", message))
WithWarning(l, warned) ==
    IF warned
    THEN Append(l, Logged("warning", "Failed to get existing reviewers"))
    ELSE l
\* setFailed(message), if there is an error
WithFailure(f, message) == IF message = "" THEN f ELSE Append(f, message)

\* the outputs set when nothing was assigned
ErrorOutputsWithoutFlag(out) ==
    out \o <<Output("reviewers", <<>>), Output("reviewer-count", <<"0">>)>>
ErrorOutputs(out) ==
    out \o <<Output("assignment-successful", <<"false">>),
             Output("reviewers", <<>>),
             Output("reviewer-count", <<"0">>)>>

----------------------------------------------------------------------------
(* Lottery.run, one action for each stretch between two answers of the     *)
(* services                                                                *)

\* new Lottery({ ..., config, prInfo }): lines 27-53
NewLottery(info) ==
    /\ lpc = "none"
    /\ lpc' = "new"
    /\ prInfo' = info
    /\ pr' = NoPull
    /\ UNCHANGED <<config, engineVars, loaded, failed, prAuthor, fetched,
                   reviewers, log, outputs, summaries, requests, answers>>

\* the catch block of run() has caught an error with this message:
\* lines 103-113
Caught(l, f, message) ==
    /\ log' = Append(l, Logged("error", message))
    /\ failed' = Append(f, message)
    /\ outputs' = ErrorOutputs(outputs)
    /\ lpc' = "end"

\* run() up to the answer of isReadyToReview: lines 56-60, 118-129, 287-316,
\* and lines 97-102 when the PR is not ready
IsReadyToReview ==
    /\ lpc = "new"
    /\ \E o \in FindOutcomes :
          LET r == getPR(pr, prInfo, o)
              ready == r.pr.set
          IN  /\ pr' = r.pr
              /\ log' = WithError(Append(log, Logged("startGroup",
                                                     "Starting")),
                                  r.error)
              /\ failed' = WithFailure(failed, r.error)
              /\ IF ready
                 THEN /\ lpc' = "selectReviewers"
                      /\ UNCHANGED outputs
                 ELSE /\ lpc' = "end"
                      /\ outputs' = ErrorOutputs(outputs)
    /\ UNCHANGED <<config, engineVars, loaded, prInfo, prAuthor, fetched,
                   reviewers, summaries, requests, answers>>

\* selectReviewers() up to the answer of getPRAuthor: lines 152-154, 242-275
GetPRAuthor ==
    /\ lpc = "selectReviewers"
    /\ \E o \in AuthorOutcomes :
          LET r == getPRAuthor(pr, prInfo, o)
          IN  /\ prAuthor' = r.author
              /\ pr' = r.pr
              /\ log' = WithError(Append(log, Logged("startGroup",
                                                     "Selecting")),
                                  r.error)
              /\ failed' = WithFailure(failed, r.error)
    /\ lpc' = "getExistingReviewers"
    /\ UNCHANGED <<config, engineVars, loaded, prInfo, fetched, reviewers,
                   outputs, summaries, requests, answers>>

\* the answer of getExistingReviewers: lines 155, 139-149
GetExistingReviewers ==
    /\ lpc = "getExistingReviewers"
    /\ \E o \in ExistingOutcomes :
          LET r == getExistingReviewers(o)
          IN  IF r.threw
              THEN /\ Caught(log, failed, "Failed to get existing reviewers")
                   /\ UNCHANGED fetched
              ELSE /\ fetched' = r.list
                   /\ log' = WithWarning(log, r.warning)
                   /\ lpc' = "select"
                   /\ UNCHANGED <<failed, outputs>>
    /\ UNCHANGED <<config, engineVars, loaded, prInfo, pr, prAuthor,
                   reviewers, summaries, requests, answers>>

\* selectReviewers() returns to run(), which sets the outputs of the
\* selection: lines 189-204 and 66-80, 90-92
Selected(l, f, out, list) ==
    /\ reviewers' = list
    /\ failed' = f
    /\ IF Len(list) > 0
       THEN /\ log' = l \o <<Logged("endGroup", ""),
                             Logged("startGroup", "Assigning")>>
            /\ outputs' =
                  out \o <<Output("reviewers", Join(list)),
                           Output("reviewer-count", <<toString(Len(list))>>),
                           Output("assignment-successful", <<"true">>)>>
            /\ lpc' = "addSuccessSummary"
       ELSE /\ log' = Append(l, Logged("endGroup", ""))
            /\ outputs' =
                  out \o <<Output("reviewers", Join(list)),
                           Output("reviewer-count", <<toString(Len(list))>>),
                           Output("assignment-successful", <<"false">>)>>
            /\ lpc' = "addNoReviewersSummary"

\* the try block of selectReviewers() up to the call of the selector, or
\* to its end when the selector is not called: lines 162-171, 193-203
CallSelector ==
    /\ lpc = "select"
    /\ IF ~config.selection_rules.present
       THEN /\ Selected(log, failed, outputs, <<>>)
            /\ UNCHANGED engineVars
       ELSE IF getAuthorGroupThrows(config, prAuthor)
       THEN /\ Selected(Append(log, Logged("error", "TypeError")),
                        Append(failed, "TypeError"), outputs, <<>>)
            /\ UNCHANGED engineVars
       ELSE /\ SelectReviewers(prAuthor, fetched)
            /\ lpc' = "selecting"
            /\ UNCHANGED <<failed, reviewers, log, outputs>>
    /\ UNCHANGED <<config, loaded, prInfo, pr, prAuthor, fetched, summaries,
                   requests, answers>>

\* the getAuthorGroup(author) || "none" given to setOutput
AuthorGroupOutput(cfg, a) ==
    IF getAuthorGroup(cfg, a) = <<>> THEN <<"none">>
    ELSE getAuthorGroup(cfg, a)

\* the selector has returned or thrown: lines 173-190, 196-203
SelectorDone ==
    /\ lpc = "selecting"
    /\ pc \in {"idle", "threw"}
    /\ IF pc = "idle"
       THEN Selected(log, failed,
                     outputs \o
                        <<Output("pr-author", <<prAuthor>>),
                          Output("author-group",
                                 AuthorGroupOutput(config, prAuthor)),
                          Output("existing-reviewers", Join(fetched))>>,
                     ret)
       ELSE Selected(Append(log, Logged("error", "TypeError")),
                     Append(failed, "TypeError"), outputs, <<>>)
    /\ UNCHANGED <<config, engineVars, loaded, prInfo, pr, prAuthor, fetched,
                   summaries, requests, answers>>

\* addSuccessSummary(reviewers) or addNoReviewersSummary(): the author and
\* the existing reviewers are asked for again, then the summary is written
\* (ok) or actionOutputs.addSummary rejects: lines 206-240
AddSummary(status, next) ==
    \E ao \in AuthorOutcomes, eo \in ExistingOutcomes, ok \in BOOLEAN :
        LET a == getPRAuthor(pr, prInfo, ao)
            e == getExistingReviewers(eo)
            l1 == WithError(log, a.error)
            f1 == WithFailure(failed, a.error)
        IN  /\ pr' = a.pr
            /\ IF getAuthorGroupThrows(config, a.author)
               THEN /\ Caught(l1, f1, "TypeError")
                    /\ UNCHANGED summaries
               ELSE IF e.threw
               THEN /\ Caught(l1, f1, "Failed to get existing reviewers")
                    /\ UNCHANGED summaries
               ELSE IF ~ok
               THEN /\ Caught(WithWarning(l1, e.warning), f1, "addSummary")
                    /\ UNCHANGED summaries
               ELSE /\ log' = WithWarning(l1, e.warning)
                    /\ failed' = f1
                    /\ summaries' = Append(summaries, status)
                    /\ lpc' = next
                    /\ UNCHANGED outputs

\* lines 82 and 206-222
AddSuccessSummary ==
    /\ lpc = "addSuccessSummary"
    /\ AddSummary("Successfully assigned", "setReviewers")
    /\ UNCHANGED <<config, engineVars, loaded, prInfo, prAuthor, fetched,
                   reviewers, requests, answers>>

\* lines 95 and 224-240
AddNoReviewersSummary ==
    /\ lpc = "addNoReviewersSummary"
    /\ AddSummary("No reviewers selected", "end")
    /\ UNCHANGED <<config, engineVars, loaded, prInfo, prAuthor, fetched,
                   reviewers, requests, answers>>

\* setReviewers(reviewers) and the answer of githubService.setReviewers,
\* which resolves (ok) or rejects: lines 84-89, 131-137
SetReviewers ==
    /\ lpc = "setReviewers"
    /\ requests' = Append(requests,
                          [pr |-> getPRNumber(pr),
                           reviewers |-> FilterTruthy(reviewers)])
    /\ \E ok \in BOOLEAN :
          /\ answers' = Append(answers, ok)
          /\ IF ok
             THEN /\ log' = Append(log, Logged("endGroup", ""))
                  /\ lpc' = "end"
                  /\ UNCHANGED <<failed, outputs>>
             ELSE Caught(Append(log, Logged("endGroup", "")), failed,
                         "setReviewers")
    /\ UNCHANGED <<config, engineVars, loaded, prInfo, pr, prAuthor, fetched,
                   reviewers, summaries>>

\* the end of run(): line 115
RunEnd ==
    /\ lpc = "end"
    /\ log' = Append(log, Logged("endGroup", ""))
    /\ lpc' = "done"
    /\ UNCHANGED <<config, engineVars, loaded, failed, prInfo, pr, prAuthor,
                   fetched, reviewers, outputs, summaries, requests, answers>>

----------------------------------------------------------------------------
(* Specification of the selection engine: selectReviewers called once, as  *)
(* Lottery.run does, on a selector built with one of EngineConfigs         *)

STAR == <<"*">>
NotA == <<"!", "a">>
NotAB == <<"!", "a", ",", " ", "b">>
\* names no configured group
ZZ == <<"z">>

Counts == -1..MaxCount

\* the from clauses with these keys, in this order, and any counts
ClausesOver(keys) ==
    {[i \in 1..Len(keys) |-> <<keys[i], c[i]>>] :
        c \in [1..Len(keys) -> Counts]}

EngineClauses ==
    UNION {ClausesOver(keys) :
             keys \in {<<>>, <<A>>, <<C, STAR>>, <<A, NotA>>, <<NotAB, ZZ>>}}

EngineRules ==
    {NoRules}
    \cup {SelectionRules(Section(From(c)), NoByAuthorGroup, NoSection) :
            c \in EngineClauses}
    \cup {SelectionRules(NoSection,
                         ByAuthorGroup(<<SelectionRule(A, From(c)),
                                         SelectionRule(B, From(<<<<B, 1>>>>))>>),
                         Section(From(c))) :
            c \in EngineClauses}

EngineConfigs == {Config(g, r, "unset") : g \in Rosters, r \in EngineRules}

ExistingLists == SeqsUpTo(Authors, MaxExisting)

Init ==
    /\ config \in EngineConfigs
    /\ loaded = config
    /\ Init0

Next ==
    \/ /\ op = "none"
       /\ \E a \in Authors, existing \in ExistingLists :
             SelectReviewers(a, existing)
       /\ UNCHANGED runVars
    \/ NextEntry
    \/ PickIteration
    \/ PickReturn
    \/ SelectReturn

Spec == Init /\ [][Next]_vars

----------------------------------------------------------------------------
(* Specification of pickRandom alone: the method called once, with any     *)
(* items, n and ignore; SpecPickFair adds that a running loop takes its    *)
(* next step                                                               *)

ItemLists == SeqsUpTo(Usernames, MaxItems)
IgnoreLists == SeqsUpTo(Usernames, MaxIgnore)
PickCounts == -1..(MaxItems + 1)

InitPick ==
    /\ config = Config(<<>>, NoRules, "unset")
    /\ loaded = config
    /\ Init0

NextPick ==
    \/ /\ op = "none"
       /\ \E its \in ItemLists, k \in PickCounts, ign \in IgnoreLists :
             PickRandom(its, k, ign)
       /\ UNCHANGED runVars
    \/ PickIteration
    \/ PickReturn

SpecPick == InitPick /\ [][NextPick]_vars

SpecPickFair ==
    InitPick /\ [][NextPick]_vars /\ WF_vars(PickIteration)
             /\ WF_vars(PickReturn)

----------------------------------------------------------------------------
(* Specification of resolveGroupSelection alone: the method called once,   *)
(* on any key of at most MaxKeyLen characters                              *)

MaxKeyLen == 5

KeyChars == {"a", "b", "c", "!", ",", " ", "*"}
GroupKeys == SeqsUpTo(KeyChars, MaxKeyLen)

InitResolve ==
    /\ config \in {Config(g, NoRules, "unset") : g \in Rosters \cup {<<>>}}
    /\ loaded = config
    /\ Init0

NextResolve ==
    /\ op = "none"
    /\ \E key \in GroupKeys : ResolveGroupSelection(key)
    /\ UNCHANGED runVars

SpecResolve == InitResolve /\ [][NextResolve]_vars

----------------------------------------------------------------------------
(* Specification of rule resolution alone: determineApplicableRule called  *)
(* once on a selector built with one of RuleConfigs.  A rule section that  *)
(* is present carries a from clause, as the types of config.ts require.    *)

\* from clauses over the keys "a" and "*"
RuleClauses ==
    UNION {ClausesOver(keys) : keys \in {<<>>, <<A>>, <<STAR>>, <<A, STAR>>}}
ShortRuleClauses ==
    UNION {ClausesOver(keys) : keys \in {<<>>, <<A>>, <<STAR>>}}

DefaultChoices ==
    {NoSection, Section(From(<<>>)), Section(From(<<<<A, 1>>>>)),
     Section(From(<<<<STAR, 2>>, <<A, -1>>>>))}

NonGroupMembersChoices ==
    {NoSection, Section(From(<<>>)), Section(From(<<<<STAR, 1>>>>))}

ByAuthorGroupChoices ==
    {NoByAuthorGroup, ByAuthorGroup(<<>>)}
    \cup {ByAuthorGroup(<<SelectionRule(g, From(c))>>) :
            g \in {A, B, C}, c \in RuleClauses}
    \cup {ByAuthorGroup(<<SelectionRule(g[1], From(c1)),
                          SelectionRule(g[2], From(c2))>>) :
            g \in {<<A, B>>, <<B, A>>}, c1 \in RuleClauses,
            c2 \in ShortRuleClauses}

RuleRosters ==
    { <<Group(A, <<"u1", "u2">>), Group(B, <<"u2", "u3">>),
        Group(C, <<"u3">>)>>,
      <<Group(B, <<"u1", "u2">>), Group(A, <<"u1", "u3">>),
        Group(C, <<"u1">>)>> }

RuleConfigs ==
    {Config(g, NoRules, s) : g \in RuleRosters, s \in Strategies}
    \cup {Config(g, SelectionRules(d, by, ngm), s) :
            g \in RuleRosters, d \in DefaultChoices,
            by \in ByAuthorGroupChoices, ngm \in NonGroupMembersChoices,
            s \in Strategies}

InitRules ==
    /\ config \in RuleConfigs
    /\ loaded = config
    /\ Init0

NextRules ==
    /\ op = "none"
    /\ \E a \in Authors : DetermineApplicableRule(a)
    /\ UNCHANGED runVars

SpecRules == InitRules /\ [][NextRules]_vars

----------------------------------------------------------------------------
(* Specification of the selection engine on the shapes of configuration    *)
(* that reach it: rule sections missing, from clauses missing or empty,    *)
(* keys naming no group, an empty group, counts above the size of the      *)
(* pool, a group without usernames; selectReviewers is called once, the    *)
(* author being possibly ""                                                *)

ShapeRosters ==
    { <<Group(A, <<"u1", "u2">>), Group(B, <<"u1", "u3">>), Group(C, <<>>)>>,
      <<Group(B, <<"u1">>), Group(A, <<"u2", "u3">>), Group(C, <<"u3">>)>>,
      <<Group(A, <<"u1">>), GroupWithoutUsernames(B)>> }

ShapeFroms ==
    {Undefined, From(<<>>), From(<<<<A, 1>>>>),
     From(<<<<ZZ, 1>>, <<STAR, 3>>>>), From(<<<<NotA, 2>>, <<B, -1>>>>)}

ShapeDefaults == {NoSection} \cup {Section(f) : f \in ShapeFroms}

ShapeNonGroupMembers ==
    {NoSection, Section(Undefined), Section(From(<<>>)),
     Section(From(<<<<STAR, 1>>>>))}

ShapeByAuthorGroup ==
    {NoByAuthorGroup, ByAuthorGroup(<<>>)}
    \cup {ByAuthorGroup(<<SelectionRule(g, f)>>) :
            g \in {A, B}, f \in ShapeFroms}
    \cup {ByAuthorGroup(<<SelectionRule(A, f1), SelectionRule(B, f2)>>) :
            f1 \in ShapeFroms, f2 \in ShapeFroms}

ShapeConfigs ==
    {Config(g, NoRules, "unset") : g \in ShapeRosters}
    \cup {Config(g, SelectionRules(d, by, ngm), "unset") :
            g \in ShapeRosters, d \in ShapeDefaults,
            by \in ShapeByAuthorGroup, ngm \in ShapeNonGroupMembers}

ShapeAuthors == Authors \cup {""}
ShapeExisting == {<<>>, <<"u2">>, <<"u3", "ext">>}

InitShapes ==
    /\ config \in ShapeConfigs
    /\ loaded = config
    /\ Init0

NextShapes ==
    \/ /\ op = "none"
       /\ \E a \in ShapeAuthors, existing \in ShapeExisting :
             SelectReviewers(a, existing)
       /\ UNCHANGED runVars
    \/ NextEntry
    \/ PickIteration
    \/ PickReturn
    \/ SelectReturn

SpecShapes == InitShapes /\ [][NextShapes]_vars

\* a call that has started runs to its end
SpecShapesFair ==
    InitShapes /\ [][NextShapes]_vars /\ WF_vars(NextEntry)
               /\ WF_vars(PickIteration) /\ WF_vars(PickReturn)
               /\ WF_vars(SelectReturn)

----------------------------------------------------------------------------
(* Specification of getConfig alone: the function called once on a loaded  *)
(* configuration, well formed or not                                       *)

LoadedRosters ==
    { <<Group(A, <<"u1", "u2">>), Group(B, <<"u2", "u3">>),
        Group(C, <<"u3">>)>>,
      <<Group(A, <<"u1", "u2">>), Group(A, <<"u3">>)>>,
      <<>> }

LoadedFroms ==
    {Undefined, From(<<>>), From(<<<<A, 1>>>>), From(<<<<A, -1>>>>),
     From(<<<<ZZ, 1>>>>), From(<<<<STAR, 0>>, <<NotA, 1>>>>),
     From(<<<<NotAB, 2>>>>), From(<<<<<<"!", "z">>, 1>>>>),
     From(<<<<<<"!", "a", ",", "z">>, 1>>>>)}

LoadedDefaults == {NoSection} \cup {Section(f) : f \in LoadedFroms}

LoadedNonGroupMembers ==
    {NoSection, Section(Undefined), Section(From(<<<<STAR, 1>>>>)),
     Section(From(<<<<ZZ, 1>>>>))}

LoadedByAuthorGroup ==
    {NoByAuthorGroup, ByAuthorGroup(<<>>)}
    \cup {ByAuthorGroup(<<SelectionRule(g, f)>>) :
            g \in {A, ZZ}, f \in LoadedFroms}
    \cup {ByAuthorGroup(<<SelectionRule(A, From(<<<<STAR, 1>>>>)),
                          SelectionRule(B, f)>>) : f \in LoadedFroms}

\* "" and "random" are values a YAML file can give the property
LoadedStrategies == Strategies \cup {"", "random"}

LoadedConfigs ==
    {Config(g, NoRules, s) : g \in LoadedRosters, s \in LoadedStrategies}
    \cup {Config(g, SelectionRules(d, by, ngm), s) :
            g \in LoadedRosters, d \in LoadedDefaults,
            by \in LoadedByAuthorGroup, ngm \in LoadedNonGroupMembers,
            s \in LoadedStrategies}

InitConfig ==
    /\ loaded \in LoadedConfigs
    /\ config = NoGroups
    /\ Init0

NextConfig ==
    /\ op = "none"
    /\ GetConfig

SpecConfig == InitConfig /\ [][NextConfig]_vars

----------------------------------------------------------------------------
(* Specification of a Lottery: built on one of LotteryConfigs, with or      *)
(* without prInfo, and run once                                            *)

LotteryRosters ==
    { <<Group(A, <<"u1", "u2">>), Group(B, <<"u2", "u3">>)>>,
      <<Group(A, <<"u1", "">>)>>,
      <<Group(A, <<"u1">>), GroupWithoutUsernames(B)>> }

LotteryRules ==
    {NoRules,
     SelectionRules(Section(From(<<<<STAR, 1>>>>)), NoByAuthorGroup,
                    NoSection),
     SelectionRules(Section(From(<<<<A, 2>>>>)), NoByAuthorGroup, NoSection),
     SelectionRules(NoSection,
                    ByAuthorGroup(<<SelectionRule(A, From(<<<<B, 1>>>>))>>),
                    NoSection),
     SelectionRules(Section(From(<<<<A, 0>>>>)), NoByAuthorGroup,
                    Section(From(<<<<A, 1>>, <<STAR, 2>>>>)))}

LotteryConfigs ==
    {Config(g, r, "unset") : g \in LotteryRosters, r \in LotteryRules}

\* prInfo: missing, without author, with the author
PRInfos == {NoPRInfo, PRInfo(""), PRInfo("u1"), PRInfo("ext")}

InitLottery ==
    /\ config \in LotteryConfigs
    /\ loaded = config
    /\ Init0

NextLottery ==
    \/ \E info \in PRInfos : NewLottery(info)
    \/ IsReadyToReview
    \/ GetPRAuthor
    \/ GetExistingReviewers
    \/ CallSelector
    \/ NextEntry
    \/ PickIteration
    \/ PickReturn
    \/ SelectReturn
    \/ SelectorDone
    \/ AddSuccessSummary
    \/ AddNoReviewersSummary
    \/ SetReviewers
    \/ RunEnd

SpecLottery == InitLottery /\ [][NextLottery]_vars

\* a run that has started goes on to its end
SpecLotteryFair == InitLottery /\ [][NextLottery]_vars /\ WF_vars(NextLottery)

----------------------------------------------------------------------------
(* Specification of one selector called again and again: selectReviewers   *)
(* and pickRandom, MaxCalls times at most, with any of the arguments below *)

MaxCalls == 3       \* most calls made on one selector

CallRosters ==
    { <<Group(A, <<"u1", "u2">>), Group(B, <<"u2", "u3">>),
        Group(C, <<"u3">>)>> }

CallRules ==
    {SelectionRules(Section(From(<<<<STAR, 2>>>>)), NoByAuthorGroup,
                    NoSection),
     SelectionRules(Section(From(<<<<C, 1>>>>)),
                    ByAuthorGroup(<<SelectionRule(A, From(<<<<B, 1>>,
                                                            <<NotA, 1>>>>)),
                                    SelectionRule(B, From(<<<<A, 2>>>>))>>),
                    Section(From(<<<<STAR, 1>>>>)))}

CallConfigs == {Config(g, r, "unset") : g \in CallRosters, r \in CallRules}

CallExisting == {<<>>, <<"u3">>}
CallItems == {<<"u1", "u2", "u3">>, <<"u1", "u1">>}
CallIgnore == {<<>>, <<"u2">>}

InitCalls ==
    /\ config \in CallConfigs
    /\ loaded = config
    /\ Init0

NextCalls ==
    \/ /\ calls < MaxCalls
       /\ \E a \in Authors, existing \in CallExisting :
             SelectReviewers(a, existing)
       /\ UNCHANGED runVars
    \/ /\ calls < MaxCalls
       /\ \E its \in CallItems, k \in 0..2, ign \in CallIgnore :
             PickRandom(its, k, ign)
       /\ UNCHANGED runVars
    \/ NextEntry
    \/ PickIteration
    \/ PickReturn
    \/ SelectReturn

SpecCalls == InitCalls /\ [][NextCalls]_vars

----------------------------------------------------------------------------
(* Specification of a selection made again once its result is applied: a   *)
(* first call of selectReviewers, then a second call for the same author   *)
(* whose existing reviewers are those of the first call followed by the    *)
(* reviewers it selected                                                   *)

\* the second call
Rerun ==
    /\ calls = 1
    /\ op = "selectReviewers"
    /\ SelectReviewers(author, existingReviewers \o ret)
    /\ UNCHANGED runVars

NextRerun ==
    \/ /\ calls = 0
       /\ \E a \in Authors, existing \in ExistingLists :
             SelectReviewers(a, existing)
       /\ UNCHANGED runVars
    \/ Rerun
    \/ NextEntry
    \/ PickIteration
    \/ PickReturn
    \/ SelectReturn

SpecRerun == Init /\ [][NextRerun]_vars

----------------------------------------------------------------------------
(* Specification of the action (src/src/main.ts): getConfig, then a        *)
(* Lottery built on the configuration it returned and on the prInfo of the *)
(* event, and run once                                                     *)

MainRoster == <<Group(A, <<"u1", "u2">>), Group(B, <<"u2", "u3">>)>>

\* what the configuration file holds: a valid configuration, and one for
\* each way validation fails
MainLoaded ==
    {Config(MainRoster, NoRules, "unset")}
    \cup {Config(MainRoster,
                 SelectionRules(Section(f), NoByAuthorGroup, NoSection), s) :
            f \in {From(<<<<A, 1>>>>), From(<<<<A, 1>>, <<ZZ, 1>>>>),
                   From(<<<<A, -1>>, <<B, 1>>>>),
                   From(<<<<<<"!", "z">>, 1>>>>), Undefined},
            s \in {"unset", "random"}}

\* the prInfo main.ts builds: the author is "" when the event has none
MainPRInfos == {PRInfo(""), PRInfo("u1")}

InitMain ==
    /\ loaded \in MainLoaded
    /\ config = NoGroups
    /\ Init0

NextMain ==
    \/ /\ op = "none"
       /\ GetConfig
    \/ /\ op = "getConfig"
       /\ \E info \in MainPRInfos : NewLottery(info)
    \/ IsReadyToReview
    \/ GetPRAuthor
    \/ GetExistingReviewers
    \/ CallSelector
    \/ NextEntry
    \/ PickIteration
    \/ PickReturn
    \/ SelectReturn
    \/ SelectorDone
    \/ AddSuccessSummary
    \/ AddNoReviewersSummary
    \/ SetReviewers
    \/ RunEnd

SpecMain == InitMain /\ [][NextMain]_vars

----------------------------------------------------------------------------
(* The legacy Lottery (src/unnamed/part_007): every group carries the      *)
(* number of reviewers to request from it.  It keeps its state in the      *)
(* variables of Lottery and of pickRandom; config holds a legacy           *)
(* configuration.                                                          *)

\* a group { name, reviewers, internal_reviewers, usernames }; 0 stands for
\* a count that is missing
LegacyGroup(name, countOfReviewers, internalReviewers, usernames) ==
    [name |-> name, reviewers |-> countOfReviewers,
     internal_reviewers |-> internalReviewers, usernames |-> usernames]

\* the value undefined, which [][0] is
NoPick == "<undefined>"

\* the variables the legacy Lottery does not use
legacyUnused == <<config, pc, op, author, existingReviewers, appliedRule,
                  process, groupKey, ret, calls, loaded, prInfo, fetched,
                  outputs, summaries>>

\* the answers of octokit.pulls.list: a pull of the ref, a draft, no pull
\* of the ref, a rejection
LegacyOutcomes ==
    {[kind |-> k, pull |-> Pull(PRNumber, TRUE, l)] :
        k \in {"pull", "draft"}, l \in {"u1", "u2", "ext"}}
    \cup {[kind |-> "undefined", pull |-> NoPull],
          [kind |-> "rejected", pull |-> NoPull]}

\* usernames.includes(author) && internalReviewers ? internalReviewers
\* : reviewers
reviewersToRequest(group, a) ==
    IF Includes(group.usernames, a) /\ group.internal_reviewers # 0
    THEN group.internal_reviewers
    ELSE group.reviewers

\* items.filter(item => item !== ignore)
LegacyEligible(its, ign) == SelectSeq(its, LAMBDA x : x # ign)

\* reviewers.filter(r => !!r): undefined and the empty string are falsy
LegacyFilterTruthy(list) == SelectSeq(list, LAMBDA r : r \notin {"", NoPick})

\* Math.floor(Math.random() * length), which is 0 for an empty array
LegacyRandom(length) == IF length = 0 THEN {0} ELSE Random(length)

\* runLottery: new Lottery, then run() up to the call of selectReviewers
\* and its getPRAuthor: lines 41-45, 54-63, 76-78, 120-131, 146-167
LegacyRun ==
    /\ lpc = "none"
    /\ \E o \in LegacyOutcomes :
          LET error == IF o.kind = "undefined" THEN "PR matching ref not found"
                       ELSE IF o.kind = "rejected" THEN "pulls.list"
                       ELSE ""
          IN  /\ pr' = o.pull
              /\ log' = WithError(log, error)
              /\ failed' = WithFailure(failed, error)
              /\ prAuthor' = IF o.kind = "pull" THEN o.pull.login ELSE ""
              /\ lpc' = IF o.kind = "pull" THEN "legacyGroups" ELSE "done"
    /\ entryIdx' = 0
    /\ selected' = <<>>
    /\ UNCHANGED <<items, n, ignore, candidates, picks, reviewers, requests,
                   answers, legacyUnused>>

\* the for loop of selectReviewers takes the next group, and pickRandom is
\* called for it: lines 81-95, 105-108
LegacyNextGroup ==
    /\ lpc = "legacyGroups"
    /\ entryIdx < Len(config.groups)
    /\ entryIdx' = entryIdx + 1
    /\ LET group == config.groups[entryIdx + 1]
           count == reviewersToRequest(group, prAuthor)
       IN  IF count = 0
           THEN UNCHANGED <<lpc, items, n, ignore, candidates, picks>>
           ELSE /\ lpc' = "legacyPick"
                /\ items' = group.usernames
                /\ n' = count
                /\ ignore' = <<prAuthor>>
                /\ candidates' = LegacyEligible(group.usernames, prAuthor)
                /\ picks' = <<>>
    /\ UNCHANGED <<selected, pr, prAuthor, log, failed, reviewers, requests,
                   answers, legacyUnused>>

\* one iteration of while (picks.length < n): lines 110-115; splice on an
\* empty array removes nothing and the pick is undefined.  Once candidates
\* is empty and undefined is among the picks an iteration changes nothing,
\* and the loop, whose condition still holds, goes on in the same state
\* for ever
LegacyPickIteration ==
    /\ lpc = "legacyPick"
    /\ Len(picks) < n
    /\ \E random \in LegacyRandom(Len(candidates)) :
          LET pick == IF candidates = <<>> THEN NoPick
                      ELSE candidates[random + 1]
          IN  /\ candidates' = IF candidates = <<>> THEN candidates
                               ELSE Splice(candidates, random + 1)
              /\ picks' = PushPick(picks, pick)
    /\ UNCHANGED <<lpc, entryIdx, selected, items, n, ignore, pr, prAuthor,
                   log, failed, reviewers, requests, answers, legacyUnused>>

\* the while loop ends and pickRandom returns: lines 110, 117, 92-94
LegacyPickReturn ==
    /\ lpc = "legacyPick"
    /\ ~(Len(picks) < n)
    /\ selected' = selected \o picks
    /\ lpc' = "legacyGroups"
    /\ UNCHANGED <<entryIdx, items, n, ignore, candidates, picks, pr,
                   prAuthor, log, failed, reviewers, requests, answers,
                   legacyUnused>>

\* selectReviewers returns to run(): lines 102, 45-46
LegacySelectReturn ==
    /\ lpc = "legacyGroups"
    /\ entryIdx = Len(config.groups)
    /\ reviewers' = selected
    /\ lpc' = IF Len(selected) > 0 THEN "legacySetReviewers" ELSE "done"
    /\ UNCHANGED <<entryIdx, selected, items, n, ignore, candidates, picks,
                   pr, prAuthor, log, failed, requests, answers,
                   legacyUnused>>

\* setReviewers(reviewers) and the answer of pulls.requestReviewers:
\* lines 46, 48-51, 65-74
LegacySetReviewers ==
    /\ lpc = "legacySetReviewers"
    /\ requests' = Append(requests,
                          [pr |-> pr.number,
                           reviewers |-> LegacyFilterTruthy(reviewers)])
    /\ \E ok \in BOOLEAN :
          /\ answers' = Append(answers, ok)
          /\ log' = WithError(log, IF ok THEN "" ELSE "requestReviewers")
          /\ failed' = WithFailure(failed,
                                   IF ok THEN "" ELSE "requestReviewers")
    /\ lpc' = "done"
    /\ UNCHANGED <<entryIdx, selected, items, n, ignore, candidates, picks,
                   pr, prAuthor, reviewers, legacyUnused>>

(* Specification of the legacy Lottery, run once; SpecLegacyFair adds that *)
(* a step that changes the state is taken when one can be                  *)

\* the test's two groups of one member; one group asked for up to two more
\* than it can give; internal_reviewers, and a negative count
LegacyRosters ==
    {<<LegacyGroup(A, 1, 0, <<"u1">>), LegacyGroup(B, 1, 0, <<"u2">>)>>,
     <<LegacyGroup(A, 1, MaxCount, <<"u1", "u2", "u3">>),
       LegacyGroup(B, -1, 0, <<"u3">>)>>}
    \cup {<<LegacyGroup(A, k, 0, <<"u1", "u2">>)>> : k \in 0..(MaxCount + 1)}

LegacyConfigs == {[groups |-> g] : g \in LegacyRosters}

InitLegacy ==
    /\ config \in LegacyConfigs
    /\ loaded = config
    /\ Init0

NextLegacy ==
    \/ LegacyRun
    \/ LegacyNextGroup
    \/ LegacyPickIteration
    \/ LegacyPickReturn
    \/ LegacySelectReturn
    \/ LegacySetReviewers

SpecLegacy == InitLegacy /\ [][NextLegacy]_vars

SpecLegacyFair == InitLegacy /\ [][NextLegacy]_vars /\ WF_vars(NextLegacy)

----------------------------------------------------------------------------
(* Properties of the selection engine *)

Range(s) == {s[i] : i \in 1..Len(s)}
NoRepeats(s) == \A i, j \in 1..Len(s) : i # j => s[i] # s[j]
Min(x, y) == IF x <= y THEN x ELSE y

\* the call of this method has returned
Returned(method) == op = method /\ pc = "idle"

\* the while loop of a pickRandom call made by executeSelection has ended
EntryPicked ==
    /\ op = "selectReviewers"
    /\ pc = "pick"
    /\ ~(Len(picks) < n /\ Len(candidates) > 0)

\* the from-clause entry executeSelection is working on
EntryKey == appliedRule.rule[entryIdx][1]
EntryCount == appliedRule.rule[entryIdx][2]

\* the usernames of the groups a key resolves to
PoolOf(key) ==
    UNION {Range(config.groups[i].usernames) :
             i \in {j \in 1..Len(config.groups) :
                      config.groups[j].name
                          \in Range(resolveGroupSelection(config, key))}}

\* the number of entries of existingReviewers that are in the pool of key
ExistingIn(key) ==
    Cardinality({i \in 1..Len(existingReviewers) :
                   existingReviewers[i] \in PoolOf(key)})

\* C1: selectedReviewers returned by selectReviewers(author,
\* existingReviewers) never contains author, whichever rule applies.
C1_NoSelfReview ==
    Returned("selectReviewers") => author \notin Range(ret)

\* reviewers were selected for an author who was in a candidate pool, under
\* a merged rule
C1_Witness ==
    /\ Returned("selectReviewers")
    /\ ret # <<>>
    /\ appliedRule.type = "merged_groups"
    /\ \E i \in 1..Len(process) : author \in Range(process[i].candidates)

\* C2: selectedReviewers contains no username of existingReviewers and no
\* username twice.
C2_NoDuplicateAssignment ==
    Returned("selectReviewers") =>
        /\ Range(ret) \cap Range(existingReviewers) = {}
        /\ NoRepeats(ret)

\* two entries contributed picks, a selected user was a candidate of both
\* (twice in one pool), and an existing reviewer was a candidate too
C2_Witness ==
    /\ Returned("selectReviewers")
    /\ Len(process) = 2
    /\ process[1].selected # <<>> /\ process[2].selected # <<>>
    /\ \E u \in Range(process[1].selected) :
          /\ u \in Range(process[2].candidates)
    /\ ~NoRepeats(process[2].candidates)
    /\ \E e \in Range(existingReviewers) :
          e \in Range(process[2].candidates)

\* C3: for an entry (key, count) with count > 0, executeSelection asks the
\* sampler for max(0, count - k) picks, k being the number of entries of
\* existingReviewers that are members of the entry's candidate pool.
C3_RemainingNeeded ==
    (op = "selectReviewers" /\ pc = "pick") =>
        /\ EntryCount > 0
        /\ n = Max(0, EntryCount - ExistingIn(EntryKey))
        /\ (ExistingIn(EntryKey) >= EntryCount => n = 0)

\* picks are requested while one existing reviewer is in the pool and
\* another is not
C3_Witness ==
    /\ op = "selectReviewers" /\ pc = "pick"
    /\ n = 1
    /\ EntryCount = 2
    /\ ExistingIn(EntryKey) = 1
    /\ Len(existingReviewers) = 2

----------------------------------------------------------------------------
(* Properties of pickRandom *)

\* the candidates of a pickRandom call: items that are not ignored
EligibleSet == Range(items) \ Range(ignore)

\* C4: pickRandom terminates for every input, and returns fewer than n
\* items when n exceeds the number of eligible candidates.
C4_PickRandomTerminates ==
    /\ [](pc = "pick" => <>(pc = "idle"))
    /\ [](Returned("pickRandom") /\ n > Cardinality(EligibleSet)
            => Len(ret) < n)

\* pickRandom was asked for items when no candidate was eligible, and
\* returned none
C4_Witness ==
    /\ Returned("pickRandom")
    /\ n > 0
    /\ items # <<>>
    /\ EligibleSet = {}
    /\ ret = <<>>

\* C5: for n > 0, pickRandom(pool, n, exclude) returns exactly
\* min(n, |pool - exclude|) items, pool - exclude being a set of usernames.
C5_PickCount ==
    (Returned("pickRandom") /\ n > 0) =>
        Len(ret) = Min(n, Cardinality(EligibleSet))

\* a pool that holds an eligible username twice gave fewer items than asked
C5_Witness ==
    /\ Returned("pickRandom")
    /\ ~NoRepeats(Eligible(items, ignore))
    /\ ignore # <<>>
    /\ n > Len(ret)
    /\ Len(ret) = 2

\* the distinct eligible usernames when executeSelection calls pickRandom
\* for the entry: pool minus author, existingReviewers and earlier picks
EntryEligible ==
    PoolOf(EntryKey)
        \ (Range(selected) \cup {author} \cup Range(existingReviewers))

\* C6 as stated: if the pool minus the exclusion set has at least
\* requiredCount members, the entry contributes exactly requiredCount
\* reviewers.
C6_ExactSatisfactionAsStated ==
    (/\ EntryPicked
     /\ author \notin Range(existingReviewers)
     /\ Cardinality(EntryEligible) >= EntryCount) =>
        Len(picks) = EntryCount

\* C6, amended: if the pool minus the exclusion set has at least
\* requiredCount members, the entry contributes exactly
\* max(0, requiredCount - k) reviewers, k being the number of entries of
\* existingReviewers that are members of the pool; that is requiredCount
\* when no existing reviewer is in the pool.
C6_ExactSatisfaction ==
    (EntryPicked /\ Cardinality(EntryEligible) >= EntryCount) =>
        /\ Len(picks) = Max(0, EntryCount - ExistingIn(EntryKey))
        /\ (ExistingIn(EntryKey) = 0 => Len(picks) = EntryCount)

\* an entry asking for two, with one existing reviewer in its pool and two
\* more members eligible, contributed one
C6_Witness ==
    /\ EntryPicked
    /\ EntryCount = 2
    /\ Cardinality(EntryEligible) >= 2
    /\ ExistingIn(EntryKey) = 1
    /\ Len(picks) = 1

----------------------------------------------------------------------------
(* Properties of rule resolution *)

\* the groups the author is a member of (positions in config.groups)
AuthorGroupSet ==
    {i \in 1..Len(config.groups) : author \in Range(config.groups[i].usernames)}

Rules == config.selection_rules

\* the by_author_group rules written for this group
RulesFor(g) ==
    {i \in 1..Len(Rules.by_author_group.list) :
        Rules.by_author_group.list[i].group = g}

\* what the rule resolution returned: this type and this clause, or nothing
Applied(type, entries) ==
    ~appliedRule.isNull /\ appliedRule.type = type /\ appliedRule.rule = entries

\* default, else none
DefaultOrNone ==
    IF Rules.default.present
    THEN Applied("default", Rules.default.from.entries)
    ELSE appliedRule.isNull

\* C7: for an author in exactly one group g the rule is the by_author_group
\* rule of g, else default, else none; for an author in no group it is
\* non_group_members, else default, else none.
C7_RulePriority ==
    (Returned("determineApplicableRule") /\ Cardinality(AuthorGroupSet) <= 1) =>
        IF AuthorGroupSet = {}
        THEN IF Rules.non_group_members.present
             THEN Applied("non_group_members",
                          Rules.non_group_members.from.entries)
             ELSE DefaultOrNone
        ELSE LET g == config.groups[CHOOSE i \in AuthorGroupSet : TRUE].name
             IN  IF RulesFor(g) # {}
                 THEN \E i \in RulesFor(g) :
                         /\ Applied("by_author_group",
                                    Rules.by_author_group.list[i].from.entries)
                         /\ appliedRule.index = i - 1
                 ELSE DefaultOrNone

\* the author's group has the second by_author_group rule, written after
\* the rule of another group, while default and non_group_members exist
C7_Witness ==
    /\ Returned("determineApplicableRule")
    /\ Cardinality(AuthorGroupSet) = 1
    /\ appliedRule.type = "by_author_group"
    /\ appliedRule.index = 1
    /\ Rules.default.present
    /\ Rules.non_group_members.present

\* the from clause one author group contributes to a merge: the clause of
\* its own by_author_group rule, or the default clause if it has none
Contributing ==
    {Rules.by_author_group.list[CHOOSE r \in RulesFor(config.groups[i].name) :
                                   \A q \in RulesFor(config.groups[i].name) :
                                      r <= q].from.entries :
        i \in {j \in AuthorGroupSet : RulesFor(config.groups[j].name) # {}}}
    \cup {Rules.default.from.entries :
            i \in {j \in AuthorGroupSet :
                     /\ RulesFor(config.groups[j].name) = {}
                     /\ Rules.default.present}}

\* the counts the contributing clauses give a key
CountsOf(k) == {Get(c, k) : c \in {d \in Contributing : HasKey(d, k)}}
MaxOf(S) == CHOOSE x \in S : \A y \in S : y <= x

\* the names of the author's groups, in declaration order
AuthorGroupNames ==
    SelectSeq(GroupNames(config),
              LAMBDA g : \E i \in AuthorGroupSet : config.groups[i].name = g)

\* a multi-group author got a rule and the strategy is merge (the default)
MergeApplied ==
    /\ Returned("determineApplicableRule")
    /\ Cardinality(AuthorGroupSet) > 1
    /\ config.when_author_in_multiple_groups \in {"unset", "merge"}
    /\ ~appliedRule.isNull

\* C8 as stated: the merged rule maps every key of a contributing clause to
\* the maximum count over the contributing clauses that mention it.
C8_MergeAsStated ==
    MergeApplied =>
        /\ appliedRule.type = "merged_groups"
        /\ appliedRule.mergedFromGroups = AuthorGroupNames
        /\ Keys(appliedRule.rule) = UNION {Keys(c) : c \in Contributing}
        /\ \A k \in Keys(appliedRule.rule) :
              Get(appliedRule.rule, k) = MaxOf(CountsOf(k))

\* C8, amended: when a rule is applied, the merged rule has type
\* merged_groups, mergedFromGroups is the author's groups in declaration
\* order, and the rule maps every key of a contributing clause, and no other
\* key, to the maximum count over the contributing clauses that mention it,
\* a negative maximum being replaced by 0 when by_author_group is present.
C8_Merge ==
    MergeApplied =>
        /\ appliedRule.type = "merged_groups"
        /\ appliedRule.mergedFromGroups = AuthorGroupNames
        /\ Keys(appliedRule.rule) = UNION {Keys(c) : c \in Contributing}
        /\ \A k \in Keys(appliedRule.rule) :
              Get(appliedRule.rule, k) =
                  IF Rules.by_author_group.present
                  THEN Max(0, MaxOf(CountsOf(k)))
                  ELSE MaxOf(CountsOf(k))

\* two contributing clauses give one key different counts, another key is
\* in one of them only
C8_Witness ==
    /\ MergeApplied
    /\ Cardinality(Contributing) >= 2
    /\ \E k \in Keys(appliedRule.rule) : Cardinality(CountsOf(k)) = 2
    /\ \E k \in Keys(appliedRule.rule) :
          \E c \in Contributing : ~HasKey(c, k)

\* every group of the author has a by_author_group rule whose clause asks
\* for at least one reviewer and has no count below 1
AllGroupsHaveRules ==
    \A i \in AuthorGroupSet :
        /\ RulesFor(config.groups[i].name) # {}
        /\ \A r \in RulesFor(config.groups[i].name) :
              LET c == Rules.by_author_group.list[r].from.entries
              IN  c # <<>> /\ \A e \in 1..Len(c) : c[e][2] > 0

\* C9: with when_author_in_multiple_groups "first", a multi-group author
\* gets the from clause of the first of the author's groups alone, as a
\* single-group author would; stated for authors all of whose groups have a
\* by_author_group rule of their own.
C9_FirstStrategy ==
    (/\ Returned("determineApplicableRule")
     /\ Cardinality(AuthorGroupSet) > 1
     /\ config.when_author_in_multiple_groups = "first"
     /\ AllGroupsHaveRules) =>
        \E i \in RulesFor(AuthorGroupNames[1]) :
            /\ ~appliedRule.isNull
            /\ appliedRule.rule = Rules.by_author_group.list[i].from.entries

----------------------------------------------------------------------------
(* Properties of resolveGroupSelection *)

\* the text after the "!" of the key
KeyRest == Tail(groupKey)

\* positions i..j of KeyRest are one piece of the comma-separated list
IsPiece(i, j) ==
    /\ i = 1 \/ KeyRest[i - 1] = ","
    /\ j = Len(KeyRest) \/ KeyRest[j + 1] = ","
    /\ \A m \in i..j : KeyRest[m] # ","

\* some piece of the list is this name with white space around it
Listed(name) ==
    \E i \in 1..(Len(KeyRest) + 1), j \in 0..Len(KeyRest) :
        /\ IsPiece(i, j)
        /\ \E k \in i..j, l \in i..j :
              /\ k <= l
              /\ SubSeq(KeyRest, k, l) = name
              /\ KeyRest[k] \notin WhiteSpace
              /\ KeyRest[l] \notin WhiteSpace
              /\ \A m \in (i..(k - 1)) \cup ((l + 1)..j) :
                    KeyRest[m] \in WhiteSpace

\* s lists elements of t in the order of t
InOrderOf(s, t) ==
    \A x, y \in 1..Len(s) :
        x < y => \E p, q \in 1..Len(t) : p < q /\ t[p] = s[x] /\ t[q] = s[y]

\* C10: on a key starting with "!", resolveGroupSelection returns exactly
\* the configured group names that are not in the comma-separated list after
\* the "!" (each piece trimmed), in declaration order.
C10_Exclusion ==
    (Returned("resolveGroupSelection") /\ StartsWith(groupKey, "!")) =>
        /\ Range(ret) = {g \in Range(GroupNames(config)) : ~Listed(g)}
        /\ InOrderOf(ret, GroupNames(config))
        /\ NoRepeats(ret)
        /\ ((\A g \in Range(GroupNames(config)) : Listed(g)) => ret = <<>>)

\* a list with a comma and white space excluded some groups and kept others
C10_Witness ==
    /\ Returned("resolveGroupSelection")
    /\ StartsWith(groupKey, "!")
    /\ "," \in Range(groupKey)
    /\ " " \in Range(groupKey)
    /\ \E g \in Range(GroupNames(config)) : Listed(g) /\ Len(g) = 2
    /\ Len(ret) = 1

----------------------------------------------------------------------------
(* Properties of the candidate pool *)

\* s without the elements that occurred earlier in it
RECURSIVE KeepFirst(_)
KeepFirst(s) ==
    IF s = <<>> THEN <<>>
    ELSE LET front == KeepFirst(SubSeq(s, 1, Len(s) - 1))
         IN  IF Includes(front, s[Len(s)]) THEN front
             ELSE Append(front, s[Len(s)])

\* the usernames of the group called name, none when no group is
MembersOf(name) ==
    IF \E i \in 1..Len(config.groups) : config.groups[i].name = name
    THEN config.groups[CHOOSE i \in 1..Len(config.groups) :
                          /\ config.groups[i].name = name
                          /\ \A j \in 1..(i - 1) :
                                config.groups[j].name # name].usernames
    ELSE <<>>

\* the members of the named groups one after the other
RECURSIVE Concatenation(_)
Concatenation(names) ==
    IF names = <<>> THEN <<>>
    ELSE MembersOf(Head(names)) \o Concatenation(Tail(names))

\* the pool of the entry executeSelection draws for has been built
PoolBuilt == op = "selectReviewers" /\ pc = "pick"

\* C11: the candidate pool built for a list of group names is the
\* concatenation of the members of each named group, in the order of the
\* names and of each group's members, with duplicates removed keeping the
\* first occurrence; names of no configured group contribute nothing.
C11_CandidatePool ==
    PoolBuilt =>
        items = KeepFirst(Concatenation(resolveGroupSelection(config,
                                                              groupKey)))

----------------------------------------------------------------------------
(* Properties of the entries of a from clause *)

\* the entries of the applied from clause that ask for reviewers
PositiveEntries == SelectSeq(appliedRule.rule, LAMBDA e : e[2] > 0)

\* the picks of the first k steps of the selection process
RECURSIVE Drawn(_)
Drawn(k) == IF k = 0 THEN <<>> ELSE Drawn(k - 1) \o process[k].selected

\* C12: an entry whose count is zero or negative contributes no picks and
\* the entries with a positive count still contribute theirs: the steps of
\* the selection are the positive entries, in order, and every selected
\* reviewer was drawn in one of these steps.
C12_PositiveEntriesOnly ==
    (Returned("selectReviewers") /\ ~appliedRule.isNull) =>
        /\ Len(process) = Len(PositiveEntries)
        /\ \A i \in 1..Len(process) :
              process[i].groupKey = PositiveEntries[i][1]
        /\ ret = Drawn(Len(process))

\* a clause with a negative entry and a positive entry gave reviewers
C12_Witness ==
    /\ Returned("selectReviewers")
    /\ \E i \in 1..Len(appliedRule.rule) : appliedRule.rule[i][2] < 0
    /\ Len(PositiveEntries) = 1
    /\ ret # <<>>

----------------------------------------------------------------------------
(* Properties of the result when no clause applies, or an empty one *)

\* the section has a from clause
HasFrom(section) == section.present /\ section.from.defined

\* the from clause of the first by_author_group rule of group g, if any
RuleFrom(g) ==
    IF RulesFor(g) = {} THEN Undefined
    ELSE Rules.by_author_group.list[
             CHOOSE r \in RulesFor(g) : \A q \in RulesFor(g) : r <= q].from

\* no clause applies to the author: selection_rules is missing, or there is
\* no default clause and no by_author_group clause of a group of the
\* author (an author in a group) or no non_group_members clause (an author
\* in no group)
NoClauseApplies ==
    \/ ~Rules.present
    \/ /\ ~HasFrom(Rules.default)
       /\ IF AuthorGroupSet = {}
          THEN ~HasFrom(Rules.non_group_members)
          ELSE \A i \in AuthorGroupSet :
                  ~RuleFrom(config.groups[i].name).defined

\* C13: when no rule resolves for the author, selectReviewers returns
\* selectedReviewers = [], appliedRule = null and process = [], for every
\* author and every list of existing reviewers.
C13_NoRule ==
    (Returned("selectReviewers") /\ NoClauseApplies) =>
        /\ appliedRule.isNull
        /\ ret = <<>>
        /\ process = <<>>

\* an author in a group, existing reviewers, rules for another group only
C13_Witness ==
    /\ Returned("selectReviewers")
    /\ NoClauseApplies
    /\ Rules.present
    /\ AuthorGroupSet # {}
    /\ Rules.by_author_group.list # <<>>
    /\ HasFrom(Rules.non_group_members)
    /\ existingReviewers # <<>>

\* the clause the rules give for group g: that of its by_author_group
\* rule, else the default clause
ClauseOfGroup(g) ==
    IF RuleFrom(g).defined THEN RuleFrom(g)
    ELSE IF HasFrom(Rules.default) THEN Rules.default.from
    ELSE Undefined

\* the clause the rules give for an author in no group
ClauseOfNonMember ==
    IF HasFrom(Rules.non_group_members) THEN Rules.non_group_members.from
    ELSE IF HasFrom(Rules.default) THEN Rules.default.from
    ELSE Undefined

\* the clauses chosen for the author
ChosenClauses ==
    IF AuthorGroupSet = {} THEN {ClauseOfNonMember}
    ELSE {ClauseOfGroup(config.groups[i].name) : i \in AuthorGroupSet}

\* the chosen clause is present and empty; for an author in several groups,
\* the clauses of all the groups are
ChosenEmpty ==
    /\ Rules.present
    /\ \A c \in ChosenClauses : c.defined /\ c.entries = <<>>

\* C14 as stated: if the chosen from clause is present but empty, the result
\* is a non-null AppliedRule with zero entries and zero picks, on every
\* path: an author in one group, in no group, and in several groups whose
\* contributing clauses are all empty.
C14_EmptyClauseAsStated ==
    (Returned("selectReviewers") /\ ChosenEmpty) =>
        /\ ~appliedRule.isNull
        /\ appliedRule.rule = <<>>
        /\ ret = <<>>

\* the rules are merged by the loop of mergeRulesFromGroups
MergedByLoop ==
    Cardinality(AuthorGroupSet) > 1 /\ Rules.by_author_group.present

\* C14, amended: if the chosen from clause is present but empty there are
\* zero picks and no selection step; the result is a non-null AppliedRule
\* with zero entries for an author in one group or in no group, and for an
\* author in several groups when by_author_group is missing; for an author
\* in several groups with by_author_group present, appliedRule is null.
C14_EmptyClause ==
    (Returned("selectReviewers") /\ ChosenEmpty) =>
        /\ ret = <<>>
        /\ process = <<>>
        /\ IF MergedByLoop
           THEN appliedRule.isNull
           ELSE ~appliedRule.isNull /\ appliedRule.rule = <<>>

\* an author in two groups, one with an empty by_author_group clause and
\* one that falls back to the empty default clause
C14_Witness ==
    /\ Returned("selectReviewers")
    /\ ChosenEmpty
    /\ MergedByLoop
    /\ \E i \in AuthorGroupSet : RuleFrom(config.groups[i].name).defined
    /\ \E i \in AuthorGroupSet : ~RuleFrom(config.groups[i].name).defined

\* C15: when a by_author_group rule exists for the author's group but its
\* from clause is empty or missing, no reviewers are assigned, whatever the
\* default and non_group_members sections are (stated for an author in
\* exactly one group).
C15_NoFromNoReviewers ==
    (/\ Returned("selectReviewers")
     /\ Cardinality(AuthorGroupSet) = 1
     /\ \A i \in AuthorGroupSet :
           /\ RulesFor(config.groups[i].name) # {}
           /\ RuleFrom(config.groups[i].name).entries = <<>>)
        => ret = <<>>

----------------------------------------------------------------------------
(* Properties of the engine on tolerated shapes *)

\* every group has its usernames
Tolerated == \A i \in 1..Len(config.groups) : config.groups[i].hasUsernames

\* the reviewers the applied clause asks for, over its entries from k on
RECURSIVE Asked(_)
Asked(k) ==
    IF k > Len(appliedRule.rule) THEN 0
    ELSE Max(0, appliedRule.rule[k][2]) + Asked(k + 1)

AllUsernames ==
    UNION {Range(config.groups[i].usernames) : i \in 1..Len(config.groups)}

\* C16: selectReviewers never throws: for every author (the empty string
\* too), every list of existing reviewers and every tolerated shape of
\* config it returns, with at most the reviewers asked for, all of them
\* members of groups.
C16_NeverThrows ==
    /\ [](Tolerated => pc # "threw")
    /\ [](op = "selectReviewers" /\ Tolerated
            => <>Returned("selectReviewers"))
    /\ [](Returned("selectReviewers") =>
            /\ Len(ret) <= Asked(1)
            /\ Range(ret) \subseteq AllUsernames)

\* the author is "", a key names no group, a group is empty and a count is
\* above the size of the pool: fewer reviewers than asked for are returned
C16_Witness ==
    /\ Returned("selectReviewers")
    /\ Tolerated
    /\ author = ""
    /\ \E i \in 1..Len(config.groups) : config.groups[i].usernames = <<>>
    /\ \E k \in 1..Len(appliedRule.rule) :
          /\ appliedRule.rule[k][1] = ZZ
          /\ appliedRule.rule[k][2] > 0
    /\ \E k \in 1..Len(process) :
          process[k].required > Len(process[k].candidates)
    /\ ret # <<>>
    /\ Len(ret) < Asked(1)

----------------------------------------------------------------------------
(* Properties of the validation of the configuration *)

\* the from clauses written in the loaded configuration
LoadedClauses ==
    LET r == loaded.selection_rules
    IN  {s.from.entries :
           s \in {t \in {r.default, r.non_group_members} : HasFrom(t)}}
        \cup {r.by_author_group.list[i].from.entries :
                i \in {j \in 1..Len(r.by_author_group.list) :
                         r.by_author_group.list[j].from.defined}}

LoadedNames == Range(GroupNames(loaded))

\* one of the defects of a configuration: selection_rules is missing; a
\* count is negative; a literal key, a name listed after "!" or the group
\* of a by_author_group rule is no configured group name;
\* when_author_in_multiple_groups is set to something else than merge or
\* first
Defective ==
    \/ ~loaded.selection_rules.present
    \/ \E c \in LoadedClauses : \E i \in 1..Len(c) : c[i][2] < 0
    \/ \E c \in LoadedClauses : \E i \in 1..Len(c) :
          /\ c[i][1] # STAR
          /\ ~StartsWith(c[i][1], "!")
          /\ c[i][1] \notin LoadedNames
    \/ \E c \in LoadedClauses : \E i \in 1..Len(c) :
          /\ StartsWith(c[i][1], "!")
          /\ ~(Range(ExcludeGroups(c[i][1])) \subseteq LoadedNames)
    \/ \E i \in 1..Len(loaded.selection_rules.by_author_group.list) :
          loaded.selection_rules.by_author_group.list[i].group
              \notin LoadedNames
    \/ loaded.when_author_in_multiple_groups \notin {"unset", "merge", "first"}

\* C17: the validation raises an error exactly when the configuration has
\* one of the defects; a configuration with none of them is accepted
\* unchanged.
C17_ValidationExactly ==
    Returned("getConfig") =>
        /\ failed # <<>> <=> Defective
        /\ ~Defective => config = loaded

\* C18: the validation rejects a configuration in which two groups have
\* the same name, so every configuration that reaches the engine has unique
\* group names.
C18_UniqueGroupNames ==
    Returned("getConfig") =>
        /\ ~NoRepeats(GroupNames(loaded)) => failed # <<>>
        /\ NoRepeats(GroupNames(config))

----------------------------------------------------------------------------
(* Properties of Lottery.run *)

ExistingWarning == Logged("warning", "Failed to get existing reviewers")

\* the fetch of the existing reviewers made for the selection was rejected:
\* its warning is in the log before any group was ended
FetchFailed ==
    \E i \in 1..Len(log) :
        /\ log[i] = ExistingWarning
        /\ \A j \in 1..(i - 1) : log[j][1] # "endGroup"

\* C19: if fetching the existing reviewers fails, Lottery takes them to be
\* the empty list and the run goes on to select and assign as if none were
\* assigned: the step that gets the answer only adds the warning, the
\* selector is called with [], and the reviewers selected are requested
\* when nothing else fails.
C19_FetchFailure ==
    /\ [][lpc = "getExistingReviewers" =>
            /\ lpc' = "select"
            /\ log' \in {log, Append(log, ExistingWarning)}
            /\ (log' # log => fetched' = <<>>)
            /\ UNCHANGED <<failed, outputs, requests, reviewers, pr, prAuthor,
                           config>>]_vars
    /\ [](FetchFailed /\ lpc = "selecting" => existingReviewers = <<>>)
    /\ [](FetchFailed /\ lpc = "done" /\ failed = <<>> /\ reviewers # <<>>
            => requests = <<[pr |-> PRNumber,
                             reviewers |-> FilterTruthy(reviewers)]>>)

\* after a failed fetch two reviewers were selected and requested
C19_Witness ==
    /\ lpc = "done"
    /\ FetchFailed
    /\ failed = <<>>
    /\ Len(reviewers) = 2
    /\ Len(requests) = 1

\* run() is past the selection of the reviewers
SelectionOver ==
    lpc \in {"addSuccessSummary", "addNoReviewersSummary", "setReviewers",
             "end", "done"}

\* C20: in a run, githubService.setReviewers is called at most once, only
\* after the PR was resolved and the selection has finished, and only with
\* a non-empty list of reviewers; when the selection yields no reviewer, no
\* request is made.
C20_SingleRequest ==
    /\ Len(requests) <= 1
    /\ requests # <<>> =>
          /\ pr.set
          /\ requests[1].pr = pr.number
          /\ SelectionOver
          /\ requests[1].reviewers # <<>>
    /\ (SelectionOver /\ reviewers = <<>>) => requests = <<>>

\* the PR could not be resolved: isReadyToReview has answered and this.pr
\* is still undefined
Unresolved == lpc \in {"end", "done"} /\ ~pr.set

NotFoundMessages == {"PR matching ref not found", "Failed to find PR by ref"}

\* C21: if the pull request cannot be resolved (findPRByRef rejects or
\* returns no PR), run() reports the error through logger.error and
\* setFailed, never calls setReviewers, and still runs to its end.
C21_PRNotResolved ==
    /\ [](Unresolved =>
            /\ \E m \in NotFoundMessages :
                  /\ failed = <<m>>
                  /\ Logged("error", m) \in Range(log)
            /\ requests = <<>>
            /\ reviewers = <<>>)
    /\ (Unresolved ~> (lpc = "done" /\ requests = <<>>))

\* findPRByRef returned no PR and the run is over
C21_Witness ==
    /\ lpc = "done"
    /\ ~pr.set
    /\ failed = <<"PR matching ref not found">>
    /\ log[Len(log)] = Logged("endGroup", "")

(* Properties of a selector called several times *)

\* C22: selectReviewers and pickRandom leave their inputs unchanged: after
\* any sequence of calls the configuration is the one the selector was
\* built with, a running call never changes its existingReviewers, items
\* or ignore argument, and a later call starts from the rule and the
\* candidates that a first call would start from.
C22_InputsUnchanged ==
    /\ [](config = loaded)
    /\ [][config' = config]_vars
    /\ [][(pc = "select" \/ pc = "pick") =>
            UNCHANGED <<author, existingReviewers>>]_vars
    /\ [][pc = "pick" => UNCHANGED <<items, ignore>>]_vars
    /\ [][pc = "idle" /\ op' = "selectReviewers" =>
            appliedRule' =
               determineApplicableRule(loaded, author',
                                       getAuthorGroup(loaded, author'))]_vars
    /\ [][pc = "select" /\ pc' = "pick" =>
            items' = getCandidatesFromGroups(
                        loaded, resolveGroupSelection(loaded, groupKey'))]_vars

\* a third call, made after a call that merged the rules of two groups, has
\* drawn one of its two reviewers
C22_Witness ==
    /\ calls = 3
    /\ op = "selectReviewers"
    /\ pc = "pick"
    /\ appliedRule.type = "merged_groups"
    /\ Len(picks) = 1
    /\ Len(selected) = 1

(* Properties of the entries of one from clause *)

\* the usernames a step may still draw: its pool without the author, the
\* existing reviewers and the picks of the earlier steps
Drawable(k) ==
    PoolOf(process[k].groupKey)
        \ (Range(Drawn(k - 1)) \cup {author} \cup Range(existingReviewers))

\* the applied rule is {g: a, "*": b} with a, b > 0, nobody is assigned
\* yet, and the groups have enough members for both entries
TwoEntries ==
    /\ Len(appliedRule.rule) = 2
    /\ appliedRule.rule[2][1] = STAR
    /\ appliedRule.rule[1][2] > 0 /\ appliedRule.rule[2][2] > 0
    /\ existingReviewers = <<>>
    /\ Cardinality(PoolOf(appliedRule.rule[1][1]) \ {author})
          >= appliedRule.rule[1][2]
    /\ Cardinality(PoolOf(STAR) \ {author})
          >= appliedRule.rule[1][2] + appliedRule.rule[2][2]

\* C23: reviewers picked for an earlier entry are excluded from the draws
\* of the later entries but not counted as satisfying them: the number an
\* entry asks for is its count less the existing reviewers of its pool,
\* its picks are new, as many as asked for or all that can still be drawn,
\* and {g: a, "*": b} with a, b > 0, no existing reviewers and enough
\* candidates selects a + b reviewers.
C23_LaterEntries ==
    (Returned("selectReviewers") /\ ~appliedRule.isNull) =>
        /\ \A k \in 1..Len(process) :
              /\ process[k].required =
                    Max(0, PositiveEntries[k][2]
                              - ExistingIn(process[k].groupKey))
              /\ Range(process[k].selected) \cap Range(Drawn(k - 1)) = {}
              /\ Len(process[k].selected) =
                    Min(process[k].required, Cardinality(Drawable(k)))
        /\ TwoEntries =>
              Len(ret) = appliedRule.rule[1][2] + appliedRule.rule[2][2]

\* {c: 1, "*": 2}: the member of c picked first is in the pool of "*", and
\* two more were picked
C23_Witness ==
    /\ Returned("selectReviewers")
    /\ appliedRule.rule = <<<<C, 1>>, <<STAR, 2>>>>
    /\ TwoEntries
    /\ ret[1] \in PoolOf(STAR)
    /\ process[2].required = 2
    /\ Len(ret) = 3

(* Properties of a selection made again *)

\* C24: running the selection again after its result was applied assigns
\* nobody new: the second call, whose existing reviewers are those of the
\* first call followed by its result, returns an empty selection and no
\* step of it picks anyone, whether or not the first result met every
\* requirement.
C24_RerunSelectsNobody ==
    (calls = 2 /\ Returned("selectReviewers")) =>
        /\ ret = <<>>
        /\ \A k \in 1..Len(process) : process[k].selected = <<>>

\* the second call returned after a step that still asked for a reviewer:
\* the first call had selected somebody (the list is longer than any given
\* to a first call) and left a requirement unmet
C24_Witness ==
    /\ calls = 2
    /\ Returned("selectReviewers")
    /\ Len(existingReviewers) > MaxExisting
    /\ author \notin Range(existingReviewers)
    /\ \E k \in 1..Len(process) : process[k].required > 0

(* Properties of the result against the requirements *)

\* the members of the pool of key that are assigned once the result is
\* applied
AssignedFrom(key) == PoolOf(key) \cap (Range(existingReviewers) \cup Range(ret))

\* C25: every requirement is met as far as the roster allows: when
\* existingReviewers has no repeated names, for every entry (key, count)
\* with count > 0 of the applied rule, the members of the entry's pool
\* among the existing and the selected reviewers are at least
\* min(count, members of the pool other than the author).
C25_RequirementsMet ==
    (/\ Returned("selectReviewers")
     /\ ~appliedRule.isNull
     /\ NoRepeats(existingReviewers)) =>
        \A i \in 1..Len(appliedRule.rule) :
            LET key == appliedRule.rule[i][1]
                count == appliedRule.rule[i][2]
            IN  count > 0 =>
                   Cardinality(AssignedFrom(key))
                      >= Min(count, Cardinality(PoolOf(key) \ {author}))

\* an entry asking for two is met by one existing and one selected
\* reviewer, and another entry is met only as far as its group allows
C25_Witness ==
    /\ Returned("selectReviewers")
    /\ NoRepeats(existingReviewers)
    /\ \E i, j \in 1..Len(appliedRule.rule) :
          LET key == appliedRule.rule[i][1]
              short == appliedRule.rule[j][1]
          IN  /\ appliedRule.rule[i][2] = 2
              /\ Cardinality(PoolOf(key) \cap Range(existingReviewers)) = 1
              /\ Cardinality(PoolOf(key) \cap Range(ret)) = 1
              /\ appliedRule.rule[j][2] > 0
              /\ Cardinality(AssignedFrom(short)) < appliedRule.rule[j][2]

(* Properties of the draws of pickRandom *)

\* C26: pickRandom can reach every eligible outcome: at the first
\* iteration the candidates are the items that are not ignored and the
\* draw can take any of them, whatever its position; at every iteration
\* any remaining candidate can be drawn; the first pick stays first and
\* the picks are what is returned.
C26_EveryOutcome ==
    /\ []((op = "pickRandom" /\ pc = "pick" /\ picks = <<>>) =>
             Range(candidates) = Range(items) \ Range(ignore))
    /\ []((op = "pickRandom" /\ pc = "pick"
                /\ Len(picks) < n /\ candidates # <<>>) =>
             \A i \in 1..Len(candidates) :
                 ENABLED (/\ PickIteration
                          /\ picks' = PushPick(picks, candidates[i])
                          /\ candidates' = Splice(candidates, i)))
    /\ [][(pc = "pick" /\ picks # <<>>) =>
             (picks' # <<>> /\ picks'[1] = picks[1])]_vars
    /\ [][(op = "pickRandom" /\ pc = "pick" /\ pc' = "idle") =>
             ret' = picks]_vars

\* the last of three eligible items was picked first and is returned
C26_Witness ==
    /\ Returned("pickRandom")
    /\ Len(Eligible(items, ignore)) = 3
    /\ ret # <<>>
    /\ ret[1] = Eligible(items, ignore)[3]

(* Properties of the outputs and of the log of Lottery.run *)

\* the positions of outputs where this output is written
Written(name) == {i \in 1..Len(outputs) : outputs[i][1] = name}

\* the last value written to this output (written at least once)
LastWritten(name) ==
    outputs[CHOOSE i \in Written(name) : \A j \in Written(name) : j <= i][2]

\* githubService.setReviewers was called and resolved
Assigned == answers # <<>> /\ answers[Len(answers)]

\* C27: at the end of run() the last value written to the output
\* assignment-successful is "true" if and only if githubService.setReviewers
\* was called and resolved in that run; on every other path it is "false".
C27_AssignmentSuccessful ==
    lpc = "done" =>
        /\ Written("assignment-successful") # {}
        /\ LastWritten("assignment-successful") =
              IF Assigned THEN <<"true">> ELSE <<"false">>
        /\ Len(answers) = Len(requests)

\* the request was rejected: "true" was written before it, "false" after
C27_Witness ==
    /\ lpc = "done"
    /\ answers = <<FALSE>>
    /\ Output("assignment-successful", <<"true">>) \in Range(outputs)
    /\ LastWritten("assignment-successful") = <<"false">>

\* the number of calls of this method of the logger
LogCalls(level) == Cardinality({i \in 1..Len(log) : log[i][1] = level})

\* C28: log groups are balanced on every path of run(): when run() returns
\* the logger has had as many endGroup calls as startGroup calls, also when
\* writing the job summary or the setReviewers call fails after the
\* "Assigning reviewers" group was opened.
C28_BalancedGroups ==
    lpc = "done" => LogCalls("endGroup") = LogCalls("startGroup")

(* Properties of the action as a whole *)

\* getConfig has returned and validation had failed
ValidationFailed == op # "none" /\ validateConfig(loaded) # "ok"

\* C29: an invalid configuration never leads to an assignment: when
\* validation fails in getConfig the failure is given to core.setFailed,
\* getConfig returns {groups: []}, and the Lottery run on it never calls
\* the selector, selects no reviewer and never calls setReviewers.
C29_InvalidConfigAssignsNobody ==
    ValidationFailed =>
        /\ failed # <<>>
        /\ failed[1] = validateConfig(loaded)
        /\ config = NoGroups
        /\ calls = 0
        /\ reviewers = <<>>
        /\ requests = <<>>
        /\ lpc = "done" =>
              /\ summaries \in {<<>>, <<"No reviewers selected">>}
              /\ Output("reviewer-count", <<"0">>) \in Range(outputs)

\* a file naming an unknown group, which would select u2 for u1, was
\* loaded, and the run on {groups: []} is over
C29_Witness ==
    /\ lpc = "done"
    /\ loaded.selection_rules.default.from = From(<<<<A, 1>>, <<ZZ, 1>>>>)
    /\ loaded.when_author_in_multiple_groups = "unset"
    /\ prAuthor = "u1"
    /\ failed = <<"Group in selection rule does not exist">>
    /\ summaries = <<"No reviewers selected">>

(* Properties of the legacy Lottery *)

\* the usernames of the groups of the legacy configuration
LegacyMembers ==
    UNION {Range(config.groups[i].usernames) : i \in 1..Len(config.groups)}

\* C30: in the legacy Lottery, when a group has fewer eligible usernames
\* than its reviewers count, whatever the shortfall, run() still terminates
\* and the list sent to requestReviewers holds only usernames of group
\* members other than the author, with no undefined or empty entry.
C30_LegacyShortfall ==
    /\ [](\A i \in 1..Len(requests) :
             Range(requests[i].reviewers)
                \subseteq LegacyMembers \ {prAuthor, "", NoPick})
    /\ <>(lpc = "done")

====
